---- MODULE Spec2Model ----
(***************************************************************************)
(* Aratta gateway: the routing pipeline of server.py (resolve, provider    *)
(* registry, circuit gate, adapter call, outcome recording), the circuit   *)
(* breaker of resilience/circuit_breaker.py and the health monitor of      *)
(* resilience/health.py, as one state machine.                             *)
(*                                                                         *)
(* Time is a discrete clock `now` (seconds); datetime.now(UTC) reads it.   *)
(* A handler runs atomically between two awaits (asyncio, one event loop). *)
(* The telemetry fields of CircuitBreakerState that are written but never  *)
(* read by any decision (last_failure, last_failure_error, last_success,   *)
(* last_state_change, success_count, consecutive_failures) are left out of *)
(* the circuit record; the per-circuit thresholds are always the breaker's *)
(* defaults and are read from them.                                        *)
(***************************************************************************)
EXTENDS Integers, Sequences, FiniteSets, TLC

\* ---------------------------------------------------------------- bounds
\* The clock stops at MaxTime; counters stop at MaxCount.
MaxTime == 2
MaxCount == 3
\* CircuitBreaker(failure_threshold, recovery_timeout_seconds, success_threshold)
failure_threshold == 2
recovery_timeout_seconds == 1
success_threshold == 2

\* ------------------------------------------------------------- constants
\* opened_at: datetime | None
None == -1

CLOSED == "closed"
OPEN == "open"
HALF_OPEN == "half_open"

\* Provider names the breaker is exercised with.
BreakerNames == {"ollama", "anthropic"}

\* The threads calling _get_provider at once.
Threads == {1, 2, 3}

\* A thread outside _get_provider: name is the name it looks up, instance
\* the adapter returned to it (0: none), status the HTTPException raised
\* (0: none).
IdleThread == [pc |-> "idle", name |-> "", instance |-> 0, status |-> 0]

\* resolve_model not called, and not to be called.
NoCalls == [inputs |-> << >>, results |-> << >>]

\* No chat_stream generator is running.
NoStream == [adapter |-> "", upstream |-> << >>, frames |-> << >>, pc |-> "idle"]

\* No upstream response is being normalised.
NoResponse == [adapter |-> "", reason |-> "", tools |-> 0, out |-> << >>]

\* No chat request of the status table is in flight.
NoReply == [provider |-> "", upstream |-> 0, raised |-> "", status |-> 0]

\* No fix proposal.
NoProposal == [fix_type |-> "", confidence |-> 0, fix_code |-> ""]

\* No heal cycle has been started.
NoHeal ==
    [pc |-> "idle", provider |-> "",
     error |-> [cls |-> "ok", message |-> "", status_code |-> None],
     research_model |-> "", cloud_providers |-> << >>, cb |-> 0, calls |-> << >>, i |-> 0,
     diagnosis |-> "", research |-> "", proposal |-> NoProposal, result |-> "",
     ret |-> "", status |-> 0]

VARIABLES
    now,        \* datetime.now(UTC), in seconds
    circuits,   \* CircuitBreaker.circuits: provider name -> CircuitBreakerState
    lastCall,   \* what the last step was: a CircuitBreaker method with its
                \* result, or the server handler that ran
    hist,       \* history, never read by the code: per provider, what was recorded
    enable_fallback,  \* ArattaConfig.enable_fallback
    _providers, \* server._providers: the names whose adapter has been constructed
    monitor,    \* the HealthMonitor's fields
    req,        \* the requests being served, per slot
    served,     \* HTTP requests accepted so far
    mlog,       \* history, never read by the code: what the monitor was told
    _reload_manager,  \* the ReloadManager's fields
    disk,       \* the backup directory, the adapter sources and the modules reloaded
    fix_calls,  \* the apply_fix calls awaiting their verify callback
    threads,    \* the threads calling _get_provider: where each is, and its result
    _provider_lock,  \* server._provider_lock: the threads holding it
    constructed, \* history, never read by the code: the names of the adapters
                \* constructed, in order; an adapter instance is its position
    resolver,    \* the strings resolve_model is still to be called with, and
                \* the calls made: each string with what was returned
    stream,      \* the chat_stream generator running: its adapter, the upstream
                \* events left and the frames yielded
    response,  \* the upstream response an adapter normalises, and the ChatResponse made
    reply,  \* a chat request: its provider, how the upstream answered, the HTTP status sent
    heal  \* the heal cycle _fire_heal awaits: where it is, the model calls made, the proposal

breakerVars == <<circuits, lastCall, hist>>
routerVars == <<enable_fallback, _providers, monitor, req, served, mlog>>
reloadVars == <<_reload_manager, disk, fix_calls>>
registryVars == <<threads, _provider_lock, constructed>>
vars == <<now, breakerVars, routerVars, reloadVars, registryVars, resolver, stream, response, reply, heal>>

\* ------------------------------------------------------------ strings
\* s.find(sub) + 1: the first position of sub in s, 0 when absent
Find(s, sub) ==
    LET hits == {i \in 1 .. (Len(s) - Len(sub) + 1) : SubSeq(s, i, i + Len(sub) - 1) = sub}
    IN  IF hits = {} THEN 0 ELSE CHOOSE i \in hits : \A j \in hits : i <= j

\* sub in s
Contains(s, sub) == Find(s, sub) # 0

UpperCase == "ABCDEFGHIJKLMNOPQRSTUVWXYZ"
LowerCase == "abcdefghijklmnopqrstuvwxyz"

RECURSIVE Lower(_)
\* s.lower()
Lower(s) ==
    IF s = "" THEN ""
    ELSE LET c == SubSeq(s, 1, 1)
             i == Find(UpperCase, c)
         IN  (IF i = 0 THEN c ELSE SubSeq(LowerCase, i, i)) \o Lower(SubSeq(s, 2, Len(s)))

\* s.split(":", 1) of a string that holds a colon
SplitColon(s) ==
    LET i == Find(s, ":")
    IN  <<SubSeq(s, 1, i - 1), SubSeq(s, i + 1, Len(s))>>

\* ---------------------------------------------------------- config.py
\* The provider table of load_config, in the order of
\* {**local_providers, **providers}; has_key: the api_key_env variable is
\* unset (local) or set in the environment. Here ANTHROPIC_API_KEY is set
\* and the other keys are not.
ProviderConfigs ==
    << [name |-> "ollama", default_model |-> "llama3.1:8b", priority |-> 0,
        enabled |-> TRUE, api_key_env |-> FALSE, api_key |-> FALSE],
       [name |-> "vllm", default_model |-> "meta-llama/Llama-3.1-8B-Instruct", priority |-> 0,
        enabled |-> FALSE, api_key_env |-> FALSE, api_key |-> FALSE],
       [name |-> "llamacpp", default_model |-> "default", priority |-> 0,
        enabled |-> FALSE, api_key_env |-> FALSE, api_key |-> FALSE],
       [name |-> "anthropic", default_model |-> "claude-sonnet-4-5-20250929", priority |-> 1,
        enabled |-> TRUE, api_key_env |-> TRUE, api_key |-> TRUE],
       [name |-> "openai", default_model |-> "gpt-4.1", priority |-> 2,
        enabled |-> TRUE, api_key_env |-> TRUE, api_key |-> FALSE],
       [name |-> "google", default_model |-> "gemini-3-flash-preview", priority |-> 3,
        enabled |-> TRUE, api_key_env |-> TRUE, api_key |-> FALSE],
       [name |-> "xai", default_model |-> "grok-4-1-fast", priority |-> 4,
        enabled |-> TRUE, api_key_env |-> TRUE, api_key |-> FALSE] >>

\* DEFAULT_MODEL_ALIASES
model_aliases ==
    [a \in {"fast", "reason", "code", "cheap", "local", "sovereign", "opus", "sonnet",
            "haiku", "gpt", "gpt-mini", "o3", "gemini", "gemini-pro", "grok", "embed",
            "embed-small"} |->
        CASE a = "fast" -> "google:gemini-3-flash-preview"
          [] a = "reason" -> "anthropic:claude-opus-4-5-20251101"
          [] a = "code" -> "anthropic:claude-sonnet-4-5-20250929"
          [] a = "cheap" -> "google:gemini-2.5-flash-lite"
          [] a = "local" -> "ollama:llama3.1:8b"
          [] a = "sovereign" -> "ollama:llama3.1:8b"
          [] a = "opus" -> "anthropic:claude-opus-4-5-20251101"
          [] a = "sonnet" -> "anthropic:claude-sonnet-4-5-20250929"
          [] a = "haiku" -> "anthropic:claude-haiku-4-5-20251001"
          [] a = "gpt" -> "openai:gpt-4.1"
          [] a = "gpt-mini" -> "openai:gpt-4.1-mini"
          [] a = "o3" -> "openai:o3"
          [] a = "gemini" -> "google:gemini-3-flash-preview"
          [] a = "gemini-pro" -> "google:gemini-3-pro-preview"
          [] a = "grok" -> "xai:grok-4-1-fast"
          [] a = "embed" -> "openai:text-embedding-3-large"
          [] a = "embed-small" -> "openai:text-embedding-3-small"]

\* ArattaConfig.default_provider
default_provider == "ollama"
\* ArattaConfig.circuit_breaker_enabled, ArattaConfig.self_healing_enabled
circuit_breaker_enabled == TRUE
self_healing_enabled == TRUE
auto_apply_fixes == FALSE

\* any(x in lower for x in subs)
AnyIn(lower, subs) == \E x \in subs : Contains(lower, x)

\* The substrings resolve_model infers a provider from, in the order it
\* tries them.
Inferred ==
    << [provider |-> "anthropic", subs |-> {"claude"}],
       [provider |-> "openai", subs |-> {"gpt", "o1", "o3", "o4", "codex"}],
       [provider |-> "google", subs |-> {"gemini"}],
       [provider |-> "xai", subs |-> {"grok"}],
       [provider |-> "ollama", subs |-> {"llama", "mistral", "qwen", "phi", "deepseek"}] >>

\* resolve_model as it would be if it inferred the provider from the string
\* before it looked the string up among the aliases
resolve_model_infers_first(alias) ==
    LET lower == Lower(alias)
        hits == {i \in DOMAIN Inferred : AnyIn(lower, Inferred[i].subs)}
    IN  IF hits # {} /\ ~Contains(alias, ":")
        THEN <<Inferred[CHOOSE i \in hits : \A j \in hits : i <= j].provider, alias>>
        ELSE IF alias \in DOMAIN model_aliases /\ Contains(model_aliases[alias], ":")
        THEN SplitColon(model_aliases[alias])
        ELSE IF alias \in DOMAIN model_aliases THEN <<default_provider, model_aliases[alias]>>
        ELSE IF Contains(alias, ":") THEN SplitColon(alias)
        ELSE <<default_provider, alias>>

\* ArattaConfig.resolve_model: <<provider, model_id>>
resolve_model(alias) ==
    IF alias \in DOMAIN model_aliases THEN
        LET resolved == model_aliases[alias]
        IN  IF Contains(resolved, ":") THEN SplitColon(resolved)
            ELSE <<default_provider, resolved>>
    ELSE IF Contains(alias, ":") THEN SplitColon(alias)
    ELSE LET lower == Lower(alias)
         IN  IF Contains(lower, "claude") THEN <<"anthropic", alias>>
             ELSE IF AnyIn(lower, {"gpt", "o1", "o3", "o4", "codex"}) THEN <<"openai", alias>>
             ELSE IF Contains(lower, "gemini") THEN <<"google", alias>>
             ELSE IF Contains(lower, "grok") THEN <<"xai", alias>>
             ELSE IF AnyIn(lower, {"llama", "mistral", "qwen", "phi", "deepseek"})
                  THEN <<"ollama", alias>>
             ELSE <<default_provider, alias>>

\* The model strings the clients send, and resolve_model tabulated over them.
ModelStrings == {"local", "sonnet", "nope:m"}

\* The model strings of the chat, streaming and embedding requests.
ChatStrings == {"sonnet", "nope:m"}
StreamStrings == {"sonnet"}
EmbedStrings == {"local"}
Resolved == [m \in ModelStrings |-> resolve_model(m)]

\* The configured provider names.
ConfiguredNames == {ProviderConfigs[i].name : i \in DOMAIN ProviderConfigs}

\* ArattaConfig.get_provider of a configured name
get_provider(name) ==
    ProviderConfigs[CHOOSE i \in DOMAIN ProviderConfigs : ProviderConfigs[i].name = name]

\* ProviderConfig.is_available
is_available(cfg) ==
    IF ~cfg.enabled THEN FALSE
    ELSE IF cfg.api_key_env THEN cfg.api_key
    ELSE TRUE

\* ProviderPriority: the priorities a provider can have, ascending
Priorities == <<0, 1, 2, 3, 4>>

RECURSIVE SortedByPriority(_, _)
\* sorted(available, key=priority): a stable sort, one priority after another
SortedByPriority(names, k) ==
    IF k > Len(Priorities) THEN << >>
    ELSE SelectSeq(names, LAMBDA n : get_provider(n).priority = Priorities[k])
         \o SortedByPriority(names, k + 1)

\* ArattaConfig.get_available_providers
get_available_providers ==
    LET all == [i \in DOMAIN ProviderConfigs |-> ProviderConfigs[i].name]
    IN  SortedByPriority(SelectSeq(all, LAMBDA n : is_available(get_provider(n))), 1)

\* ------------------------------------------------- circuit_breaker.py
\* CircuitBreakerState(provider=...) with the breaker's default thresholds
CircuitBreakerState ==
    [state |-> CLOSED, failure_count |-> 0, opened_at |-> None,
     half_open_successes |-> 0]

\* CircuitBreaker._get: the circuits with provider's record created if absent
_get(cs, provider) ==
    IF provider \in DOMAIN cs THEN cs ELSE cs @@ (provider :> CircuitBreakerState)

\* CircuitBreaker._transition
_transition(s, new, t) ==
    IF new = OPEN THEN [s EXCEPT !.state = new, !.opened_at = t]
    ELSE IF new = CLOSED THEN [s EXCEPT !.state = new, !.opened_at = None, !.failure_count = 0]
    ELSE [s EXCEPT !.state = new]

\* can_execute as it would be if the gate never refused
can_execute_ungated(cs, provider, t) ==
    [ret |-> TRUE, circuits |-> _get(cs, provider)]

\* can_execute as it would be if the recovery timeout had to be exceeded
can_execute_late(cs, provider, t) ==
    LET cs1 == _get(cs, provider)
        s == cs1[provider]
    IN  IF s.state = CLOSED THEN [ret |-> TRUE, circuits |-> cs1]
        ELSE IF s.state = OPEN /\ s.opened_at # None THEN
            IF t - s.opened_at > recovery_timeout_seconds
            THEN [ret |-> TRUE,
                  circuits |-> [cs1 EXCEPT ![provider] = _transition(s, HALF_OPEN, t)]]
            ELSE [ret |-> FALSE, circuits |-> cs1]
        ELSE [ret |-> s.state = HALF_OPEN, circuits |-> cs1]

\* CircuitBreaker.can_execute: the returned bool and the circuits afterwards
can_execute(cs, provider, t) ==
    LET cs1 == _get(cs, provider)
        s == cs1[provider]
    IN  IF s.state = CLOSED THEN [ret |-> TRUE, circuits |-> cs1]
        ELSE IF s.state = OPEN /\ s.opened_at # None THEN
            IF t - s.opened_at >= recovery_timeout_seconds
            THEN [ret |-> TRUE,
                  circuits |-> [cs1 EXCEPT ![provider] = _transition(s, HALF_OPEN, t)]]
            ELSE [ret |-> FALSE, circuits |-> cs1]
        ELSE [ret |-> s.state = HALF_OPEN, circuits |-> cs1]

\* max(0, int(x))
Max0(x) == IF x > 0 THEN x ELSE 0

\* CircuitBreaker.get_recovery_time
get_recovery_time(cs, provider, t) ==
    LET s == _get(cs, provider)[provider]
    IN  IF s.state # OPEN \/ s.opened_at = None THEN 0
        ELSE Max0(recovery_timeout_seconds - (t - s.opened_at))

\* record_success as it would be if a late success closed an OPEN circuit
record_success_closes_open(cs, provider, t) ==
    LET cs1 == _get(cs, provider)
        s == cs1[provider]
    IN  IF s.state = HALF_OPEN THEN
            LET s2 == [s EXCEPT !.half_open_successes = @ + 1]
            IN  IF s2.half_open_successes >= success_threshold
                THEN [cs1 EXCEPT ![provider] =
                        [_transition(s2, CLOSED, t) EXCEPT !.half_open_successes = 0]]
                ELSE [cs1 EXCEPT ![provider] = s2]
        ELSE [cs1 EXCEPT ![provider] = _transition(s, CLOSED, t)]

\* CircuitBreaker.record_success: the circuits afterwards
record_success(cs, provider, t) ==
    LET cs1 == _get(cs, provider)
        s == cs1[provider]
    IN  IF s.state = HALF_OPEN THEN
            LET s2 == [s EXCEPT !.half_open_successes = @ + 1]
            IN  IF s2.half_open_successes >= success_threshold
                THEN [cs1 EXCEPT ![provider] =
                        [_transition(s2, CLOSED, t) EXCEPT !.half_open_successes = 0]]
                ELSE [cs1 EXCEPT ![provider] = s2]
        ELSE IF s.state = CLOSED THEN
            [cs1 EXCEPT ![provider] = [s EXCEPT !.failure_count = 0]]
        ELSE [cs1 EXCEPT ![provider] = s]

\* record_failure as it would be if the threshold had to be exceeded
record_failure_late(cs, provider, t) ==
    LET cs1 == _get(cs, provider)
        s0 == cs1[provider]
        s == [s0 EXCEPT !.failure_count = @ + 1]
    IN  IF s.state = HALF_OPEN THEN
            [ret |-> FALSE,
             circuits |-> [cs1 EXCEPT ![provider] =
                            [_transition(s, OPEN, t) EXCEPT !.half_open_successes = 0]]]
        ELSE IF s.state = CLOSED /\ s.failure_count > failure_threshold THEN
            [ret |-> TRUE,
             circuits |-> [cs1 EXCEPT ![provider] = _transition(s, OPEN, t)]]
        ELSE [ret |-> FALSE, circuits |-> [cs1 EXCEPT ![provider] = s]]

\* record_failure as it would be if a failed probe asked for healing too
record_failure_heals_on_probe(cs, provider, t) ==
    LET cs1 == _get(cs, provider)
        s0 == cs1[provider]
        s == [s0 EXCEPT !.failure_count = @ + 1]
    IN  IF s.state = HALF_OPEN THEN
            [ret |-> TRUE,
             circuits |-> [cs1 EXCEPT ![provider] =
                            [_transition(s, OPEN, t) EXCEPT !.half_open_successes = 0]]]
        ELSE IF s.state = CLOSED /\ s.failure_count >= failure_threshold THEN
            [ret |-> TRUE,
             circuits |-> [cs1 EXCEPT ![provider] = _transition(s, OPEN, t)]]
        ELSE [ret |-> FALSE, circuits |-> [cs1 EXCEPT ![provider] = s]]

\* record_failure as it would be if a failed probe kept the probe count
record_failure_keeps_probes(cs, provider, t) ==
    LET cs1 == _get(cs, provider)
        s0 == cs1[provider]
        s == [s0 EXCEPT !.failure_count = @ + 1]
    IN  IF s.state = HALF_OPEN THEN
            [ret |-> FALSE,
             circuits |-> [cs1 EXCEPT ![provider] = _transition(s, OPEN, t)]]
        ELSE IF s.state = CLOSED /\ s.failure_count >= failure_threshold THEN
            [ret |-> TRUE,
             circuits |-> [cs1 EXCEPT ![provider] = _transition(s, OPEN, t)]]
        ELSE [ret |-> FALSE, circuits |-> [cs1 EXCEPT ![provider] = s]]

\* CircuitBreaker.record_failure: should_heal and the circuits afterwards
record_failure(cs, provider, t) ==
    LET cs1 == _get(cs, provider)
        s0 == cs1[provider]
        s == [s0 EXCEPT !.failure_count = @ + 1]
    IN  IF s.state = HALF_OPEN THEN
            [ret |-> FALSE,
             circuits |-> [cs1 EXCEPT ![provider] =
                            [_transition(s, OPEN, t) EXCEPT !.half_open_successes = 0]]]
        ELSE IF s.state = CLOSED /\ s.failure_count >= failure_threshold THEN
            [ret |-> TRUE,
             circuits |-> [cs1 EXCEPT ![provider] = _transition(s, OPEN, t)]]
        ELSE [ret |-> FALSE, circuits |-> [cs1 EXCEPT ![provider] = s]]

\* CircuitBreaker.force_open
force_open(cs, provider, t) ==
    LET cs1 == _get(cs, provider)
    IN  [cs1 EXCEPT ![provider] = _transition(cs1[provider], OPEN, t)]

\* CircuitBreaker.force_close
force_close(cs, provider, t) ==
    LET cs1 == _get(cs, provider)
    IN  [cs1 EXCEPT ![provider] = _transition(cs1[provider], CLOSED, t)]

\* reset as it would be if it dropped every provider's circuit
reset_all(cs, provider) == << >>

\* CircuitBreaker.reset: self.circuits.pop(provider, None)
reset(cs, provider) ==
    [q \in DOMAIN cs \ {provider} |-> cs[q]]

\* The failure counter of a provider's circuit is below the model's cap.
CountersBelowCap(cs, provider) ==
    _get(cs, provider)[provider].failure_count < MaxCount

\* ------------------------------------------------------------ health.py
\* HealthMonitor.ERROR_THRESHOLD, WINDOW_SECONDS, COOLDOWN_SECONDS and
\* MAX_HISTORY, as lifespan sets them from the configuration, scaled down
ERROR_THRESHOLD == 2
WINDOW_SECONDS == 2
COOLDOWN_SECONDS == 1
MAX_HISTORY == 2
\* the 5 of list(self.error_history[err.provider])[-5:], scaled down
RECENT_ERRORS == 1

\* ErrorType.from_error, on str(error)
from_error(str) ==
    LET s == Lower(str)
    IN  IF Contains(s, "timeout") THEN "timeout"
        ELSE IF AnyIn(s, {"connection", "refused", "reset"}) THEN "connection_error"
        ELSE IF Contains(s, "429") \/ Contains(s, "rate") THEN "rate_limit"
        ELSE IF Contains(s, "401") \/ Contains(s, "unauthorized") THEN "auth_error"
        ELSE IF AnyIn(s, {"schema", "validation"}) THEN "schema_mismatch"
        ELSE IF Contains(s, "tool") \/ Contains(s, "function") THEN "tool_schema"
        ELSE "unknown"

HEALABLE == {"schema_mismatch", "unknown_field", "deprecated_field", "streaming_format",
             "tool_schema"}
TRANSIENT == {"rate_limit", "connection_error", "timeout"}

\* d.get(k, default), and d[k] = v
GetOr(d, k, default) == IF k \in DOMAIN d THEN d[k] ELSE default
Put(d, k, v) == [x \in DOMAIN d \cup {k} |-> IF x = k THEN v ELSE d[x]]

\* HealthMonitor.__init__, with the class attribute COOLDOWN_SECONDS that
\* lifespan and the tests set on the instance
HealthMonitor ==
    [error_history |-> << >>, consecutive_failures |-> << >>,
     healing_in_progress |-> {}, last_heal_request |-> << >>,
     _heal_callbacks |-> << >>, COOLDOWN_SECONDS |-> COOLDOWN_SECONDS]

\* HealthMonitor.on_heal_request
on_heal_request(m, callback) ==
    [m EXCEPT !._heal_callbacks = Append(@, callback)]

\* The classes of base.py, and str(error): ProviderError prefixes its provider
ProviderErrorClasses ==
    {"ProviderError", "RateLimitError", "AuthenticationError", "ModelNotFoundError"}
StrOfError(error, provider) ==
    IF error.cls \in ProviderErrorClasses
    THEN "[" \o provider \o "] " \o error.message
    ELSE error.message

\* What an adapter call can end with: a response, or an exception raised by
\* the adapter (base.py's _handle_error, a google adapter failure with no
\* status code, a transport failure of httpx that no adapter wraps).
Ok == [cls |-> "ok", message |-> "", status_code |-> None]
RateLimited == [cls |-> "RateLimitError", message |-> "Rate limit exceeded.", status_code |-> 429]
UpstreamFailed == [cls |-> "ProviderError", message |-> "No candidates in response", status_code |-> None]
TransportFailed == [cls |-> "ConnectError", message |-> "All connection attempts failed", status_code |-> None]
Outcomes == {Ok, RateLimited, UpstreamFailed, TransportFailed}

\* str(error) and ErrorType.from_error(error), tabulated over the errors in use
StrTable ==
    [e \in Outcomes \ {Ok}, p \in ConfiguredNames |-> StrOfError(e, p)]
ErrorTypeTable ==
    [e \in Outcomes \ {Ok}, p \in ConfiguredNames |-> from_error(StrOfError(e, p))]

\* _should_heal as it would be if errors older than the window counted
_should_heal_ignores_window(m, err, t) ==
    LET p == err.provider
    IN  IF p \in m.healing_in_progress THEN FALSE
        ELSE IF p \in DOMAIN m.last_heal_request
                /\ t - m.last_heal_request[p] < m.COOLDOWN_SECONDS THEN FALSE
        ELSE IF err.error_type \in TRANSIENT THEN FALSE
        ELSE Len(m.error_history[p]) >= ERROR_THRESHOLD

\* HealthMonitor._should_heal
_should_heal(m, err, t) ==
    LET p == err.provider
        recent == SelectSeq(m.error_history[p],
                            LAMBDA e : e.timestamp > t - WINDOW_SECONDS)
    IN  IF p \in m.healing_in_progress THEN FALSE
        ELSE IF p \in DOMAIN m.last_heal_request
                /\ t - m.last_heal_request[p] < m.COOLDOWN_SECONDS THEN FALSE
        ELSE IF err.error_type \in TRANSIENT THEN FALSE
        ELSE Len(recent) >= ERROR_THRESHOLD

\* _fire_heal as it would be if the provider were not marked as healing
_fire_heal_unmarked(m, err, t) ==
    [m EXCEPT !.last_heal_request = Put(@, err.provider, t)]

\* HealthMonitor._fire_heal, up to the await of the callbacks
_fire_heal(m, err, t) ==
    [m EXCEPT !.healing_in_progress = @ \cup {err.provider},
              !.last_heal_request = Put(@, err.provider, t)]

\* list(...)[-n:]
LastN(h, n) == IF Len(h) <= n THEN h ELSE SubSeq(h, Len(h) - n + 1, Len(h))

\* HealthMonitor._fire_heal: the calls of the registered callbacks, in order,
\* each with (provider, err, the last RECENT_ERRORS errors of the history)
heal_calls(m, err) ==
    [i \in DOMAIN m._heal_callbacks |->
        [callback |-> m._heal_callbacks[i], provider |-> err.provider, error |-> err,
         recent_errors |-> LastN(m.error_history[err.provider], RECENT_ERRORS)]]

\* deque(maxlen=MAX_HISTORY).append
DequeAppend(h, entry) ==
    IF Len(h) >= MAX_HISTORY THEN Append(Tail(h), entry) ELSE Append(h, entry)

\* record_error as it would be if the error were not kept
record_error_dropped(m, provider, model, error, t) ==
    [ret |-> FALSE, monitor |-> m, calls |-> << >>]

\* HealthMonitor.record_error: whether the heal callbacks are fired, the
\* monitor as it is when they are awaited (or when the call returns), and the
\* callback calls it makes
record_error(m, provider, model, error, t) ==
    LET cf == GetOr(m.consecutive_failures, provider, 0) + 1
        entry == [provider |-> provider, model |-> model,
                  error_type |-> ErrorTypeTable[error, provider],
                  error_message |-> StrTable[error, provider],
                  timestamp |-> t, consecutive_failures |-> cf]
        m1 == [m EXCEPT !.consecutive_failures = Put(@, provider, cf),
                        !.error_history =
                            Put(@, provider, DequeAppend(GetOr(@, provider, << >>), entry))]
    IN  IF _should_heal(m1, entry, t)
        THEN [ret |-> TRUE, monitor |-> _fire_heal(m1, entry, t),
              calls |-> heal_calls(m1, entry)]
        ELSE [ret |-> FALSE, monitor |-> m1, calls |-> << >>]

\* record_success as it would be if it cleared the history too
HealthMonitor_record_success_clears(m, provider) ==
    [m EXCEPT !.consecutive_failures = Put(@, provider, 0),
              !.error_history = Put(@, provider, << >>)]

\* HealthMonitor.record_success
HealthMonitor_record_success(m, provider) ==
    [m EXCEPT !.consecutive_failures = Put(@, provider, 0)]

\* handle_heal_complete as it would be if it forgot the last heal request
handle_heal_complete_forgets(m, provider, success) ==
    LET m1 == [m EXCEPT !.healing_in_progress = @ \ {provider},
                        !.last_heal_request =
                            [q \in DOMAIN @ \ {provider} |-> @[q]]]
    IN  IF success
        THEN [m1 EXCEPT !.error_history = Put(@, provider, << >>),
                        !.consecutive_failures = Put(@, provider, 0)]
        ELSE m1

\* handle_heal_complete as it would be if a failed heal cleared the history
handle_heal_complete_always_clears(m, provider, success) ==
    [m EXCEPT !.healing_in_progress = @ \ {provider},
              !.error_history = Put(@, provider, << >>),
              !.consecutive_failures = Put(@, provider, 0)]

\* HealthMonitor.handle_heal_complete
handle_heal_complete(m, provider, success) ==
    LET m1 == [m EXCEPT !.healing_in_progress = @ \ {provider}]
    IN  IF success
        THEN [m1 EXCEPT !.error_history = Put(@, provider, << >>),
                        !.consecutive_failures = Put(@, provider, 0)]
        ELSE m1

\* ---------------------------------------------------- reload_manager.py
\* AUTO_APPLY_CONFIDENCE, in hundredths
AUTO_APPLY_CONFIDENCE == 85

\* MAX_VERSIONS (10 in the source)
MAX_VERSIONS == 2

\* ReloadManager.PROVIDER_MODULES, for the providers fixes are applied to
ReloadNames == {"anthropic", "ollama"}
PROVIDER_MODULES ==
    [p \in ReloadNames |->
        IF p = "anthropic" THEN "aratta.providers.anthropic.adapter"
        ELSE "aratta.providers.local.adapter"]

\* ReloadManager.__init__ with no version_history.json in the backup directory
ReloadManager(auto_apply) ==
    [auto_apply |-> auto_apply, auto_apply_threshold |-> AUTO_APPLY_CONFIDENCE,
     versions |-> << >>, current_version |-> << >>, pending_fixes |-> << >>]

\* The files the manager works on: the backups by path, version_history.json
\* (NoFile when absent), the adapter source of each module, and the modules
\* importlib.reload was called on.
NoFile == [exists |-> FALSE]
Disk ==
    [backups |-> << >>, history |-> NoFile,
     adapters |-> [mod \in {PROVIDER_MODULES[p] : p \in ReloadNames} |-> "shipped"],
     reloaded |-> {}]

\* ReloadManager._save_history
_save_history(m, d) ==
    [d EXCEPT !.history = [versions |-> m.versions, current_version |-> m.current_version]]

\* An assignment to fields of the AdapterVersion object v, seen through
\* self.versions when the object is still in the list.
SetVersion(m, p, v, status, result) ==
    [m EXCEPT !.versions =
        [q \in DOMAIN @ |->
            IF q # p THEN @[q]
            ELSE [i \in DOMAIN @[q] |->
                    IF @[q][i].id = v.id
                    THEN [@[q][i] EXCEPT !.status = status, !.verification_result = result]
                    ELSE @[q][i]]]]

\* ReloadManager._backup_adapter: the manager and the disk afterwards, and
\* the AdapterVersion made (id tells the objects apart)
_backup_adapter(m, d, provider, change_summary, fix_proposal, t, id) ==
    LET new_version == GetOr(m.current_version, provider, 0) + 1
        backup_path == <<provider, new_version, t>>
        version == [id |-> id, version |-> new_version, provider |-> provider,
                    timestamp |-> t, backup_path |-> backup_path,
                    change_summary |-> change_summary, fix_proposal |-> fix_proposal,
                    status |-> "pending", verification_result |-> ""]
        copied == Put(d.backups, backup_path, d.adapters[PROVIDER_MODULES[provider]])
        appended == Append(GetOr(m.versions, provider, << >>), version)
        trim == Len(appended) > MAX_VERSIONS
        oldest == appended[1]
    IN  [manager |-> [m EXCEPT !.versions =
                        Put(@, provider, IF trim THEN Tail(appended) ELSE appended)],
         disk |-> [d EXCEPT !.backups =
                        IF trim /\ oldest.backup_path \in DOMAIN copied
                        THEN [f \in DOMAIN copied \ {oldest.backup_path} |-> copied[f]]
                        ELSE copied],
         version |-> version]

\* ReloadManager._rollback: whether it returned (it raises otherwise), and
\* the manager and the disk afterwards
_rollback(m, d, provider, to_version) ==
    LET vs == GetOr(m.versions, provider, << >>)
        hits == {i \in DOMAIN vs : vs[i].version = to_version}
        target == vs[CHOOSE i \in hits : \A j \in hits : i <= j]
        m1 == [m EXCEPT !.current_version = Put(@, provider, to_version)]
        d1 == [d EXCEPT !.adapters[PROVIDER_MODULES[provider]] = d.backups[target.backup_path],
                        !.reloaded = @ \cup {PROVIDER_MODULES[provider]}]
    IN  IF provider \notin DOMAIN m.versions \/ hits = {}
        THEN [ok |-> FALSE, manager |-> m, disk |-> d]
        ELSE IF target.backup_path \notin DOMAIN d.backups
        THEN [ok |-> FALSE, manager |-> m, disk |-> d]
        ELSE [ok |-> TRUE, manager |-> m1, disk |-> _save_history(m1, d1)]

\* FixApplication(success, provider, version, message, code_changed = False,
\* verification_passed = None); of the message, the text before the first
\* figure; verification_passed is "True", "False" or "None"
FixApplication(success, provider, version, message) ==
    [success |-> success, provider |-> provider, version |-> version, message |-> message,
     code_changed |-> FALSE, verification_passed |-> "None"]

\* _apply_code_patch as it would be if it wrote the patch to the adapter
_apply_code_patch_writes(d, provider, fix_code) ==
    [ret |-> TRUE, disk |-> [d EXCEPT !.adapters[PROVIDER_MODULES[provider]] = fix_code]]

\* ReloadManager._apply_code_patch: what it returns and the disk afterwards
\* (the adapter path exists or not, it logs and returns False)
_apply_code_patch(d, provider, fix_code) ==
    [ret |-> FALSE, disk |-> d]

\* ReloadManager._reload_module, the module being in sys.modules
_reload_module(d, provider) ==
    [d EXCEPT !.reloaded = @ \cup {PROVIDER_MODULES[provider]}]

\* apply_fix from the verification on, as it would be if a passed
\* verification did not advance the current version
apply_fix_verified_unadvanced(m, d, provider, version, code_changed, verified) ==
    LET committed == SetVersion(m, provider, version, "verified", "Passed")
    IN  [manager |-> committed, disk |-> _save_history(committed, d), pc |-> "done",
         result |-> [FixApplication(verified, provider, version.version,
                                    "Fix applied and verified")
                        EXCEPT !.code_changed = code_changed,
                               !.verification_passed = "True"]]

\* ReloadManager.apply_fix from the verification on: verified is what the
\* verify callback returned (FALSE when it raised)
apply_fix_verified(m, d, provider, version, code_changed, verified) ==
    LET committed == [SetVersion(m, provider, version, "verified", "Passed")
                        EXCEPT !.current_version = Put(@, provider, version.version)]
        rb == _rollback(m, d, provider, version.version - 1)
        rolled == SetVersion(rb.manager, provider, version, "rolled_back",
                             "Failed, rolled back")
    IN  IF verified
        THEN [manager |-> committed, disk |-> _save_history(committed, d), pc |-> "done",
              result |-> [FixApplication(TRUE, provider, version.version,
                                         "Fix applied and verified")
                            EXCEPT !.code_changed = code_changed,
                                   !.verification_passed = "True"]]
        ELSE IF rb.ok
        THEN [manager |-> rolled, disk |-> _save_history(rolled, rb.disk), pc |-> "done",
              result |-> [FixApplication(FALSE, provider, version.version - 1,
                                         "Verification failed, rolled back")
                            EXCEPT !.verification_passed = "False"]]
        ELSE [manager |-> m, disk |-> d, pc |-> "done",
              result |-> FixApplication(FALSE, provider,
                                        GetOr(m.current_version, provider, 0), "Failed")]

\* apply_fix as it would be if it took its backup before queueing
apply_fix_backs_up_first(m, d, provider, fix_proposal, verify_callback, t, id) ==
    LET b == _backup_adapter(m, d, provider, "Unknown change", fix_proposal, t, id)
    IN  [manager |-> [b.manager EXCEPT !.pending_fixes = Put(@, provider, fix_proposal)],
         disk |-> b.disk, pc |-> "done", version |-> b.version, code_changed |-> FALSE,
         result |-> FixApplication(FALSE, provider, GetOr(m.current_version, provider, 0),
                                   "Queued for review")]

\* ReloadManager.apply_fix up to its return or to the await of
\* verify_callback (pc = "verifying")
apply_fix(m, d, provider, fix_proposal, verify_callback, t, id) ==
    LET b == _backup_adapter(m, d, provider, "Unknown change", fix_proposal, t, id)
        nofix == SetVersion(b.manager, provider, b.version, "verified", "No fix needed")
        patch == IF fix_proposal.fix_type \in {"code_patch", "workaround"}
                    /\ fix_proposal.fix_code # ""
                 THEN _apply_code_patch(b.disk, provider, fix_proposal.fix_code)
                 ELSE [ret |-> FALSE, disk |-> b.disk]
        code_changed == patch.ret
        d1 == IF code_changed THEN _reload_module(patch.disk, provider) ELSE patch.disk
    IN  IF ~m.auto_apply /\ fix_proposal.confidence < m.auto_apply_threshold
        THEN [manager |-> [m EXCEPT !.pending_fixes = Put(@, provider, fix_proposal)],
              disk |-> d, pc |-> "done", version |-> None, code_changed |-> FALSE,
              result |-> FixApplication(FALSE, provider,
                                        GetOr(m.current_version, provider, 0),
                                        "Queued for review")]
        ELSE IF fix_proposal.fix_type = "no_fix_needed"
        THEN [manager |-> nofix, disk |-> _save_history(nofix, b.disk), pc |-> "done",
              version |-> b.version, code_changed |-> FALSE,
              result |-> FixApplication(TRUE, provider, b.version.version, "No fix needed")]
        ELSE IF verify_callback
        THEN [manager |-> b.manager, disk |-> d1, pc |-> "verifying",
              version |-> b.version, code_changed |-> code_changed, result |-> [returned |-> FALSE]]
        ELSE LET c == apply_fix_verified(b.manager, d1, provider, b.version,
                                         code_changed, TRUE)
             IN  [manager |-> c.manager, disk |-> c.disk, pc |-> "done",
                  version |-> b.version, code_changed |-> code_changed,
                  result |-> c.result]

\* rollback_to_version as it would be if it did not pin the current version
rollback_to_version_unpinned(m, d, provider, version) ==
    [ret |-> _rollback(m, d, provider, version).ok, manager |-> m, disk |-> d]

\* ReloadManager.rollback_to_version: what it returns, and the manager and
\* the disk afterwards
rollback_to_version(m, d, provider, version) ==
    LET rb == _rollback(m, d, provider, version)
    IN  [ret |-> rb.ok, manager |-> rb.manager, disk |-> rb.disk]

\* reject_fix as it would be if it left the pending fix in place
reject_fix_keeps_pending(m, d, provider, reason) ==
    [ret |-> provider \in DOMAIN m.pending_fixes, manager |-> m, disk |-> d]

\* ReloadManager.reject_fix: what it returns, and the manager and the disk
\* afterwards
reject_fix(m, d, provider, reason) ==
    LET popped == [m EXCEPT !.pending_fixes =
                        [q \in DOMAIN @ \ {provider} |-> @[q]]]
        vs == GetOr(m.versions, provider, << >>)
        marked == SetVersion(popped, provider, vs[Len(vs)], "rejected",
                             "Rejected: " \o reason)
    IN  IF provider \notin DOMAIN m.pending_fixes
        THEN [ret |-> FALSE, manager |-> m, disk |-> d]
        ELSE IF vs # << >>
        THEN [ret |-> TRUE, manager |-> marked, disk |-> _save_history(marked, d)]
        ELSE [ret |-> TRUE, manager |-> popped, disk |-> d]

\* The finally clause as it would be if it left auto_apply set
approve_fix_finally_skipped(m, old) == m

\* ReloadManager.approve_fix, its finally clause: self.auto_apply = old
approve_fix_finally(m, old) == [m EXCEPT !.auto_apply = old]

\* ReloadManager.approve_fix up to its return or to the await of
\* verify_callback inside apply_fix (pc = "verifying"); old is the auto_apply
\* it restores when apply_fix returns
approve_fix(m, d, provider, verify_callback, t, id) ==
    LET fix == m.pending_fixes[provider]
        popped == [m EXCEPT !.pending_fixes = [q \in DOMAIN @ \ {provider} |-> @[q]],
                            !.auto_apply = TRUE]
        r == apply_fix(popped, d, provider, fix, verify_callback, t, id)
    IN  IF provider \notin DOMAIN m.pending_fixes
        THEN [manager |-> m, disk |-> d, pc |-> "done", version |-> None,
              code_changed |-> FALSE, old |-> m.auto_apply,
              result |-> FixApplication(FALSE, provider,
                                        GetOr(m.current_version, provider, 0),
                                        "No pending fix")]
        ELSE [manager |-> IF r.pc = "done" THEN approve_fix_finally(r.manager, m.auto_apply)
                          ELSE r.manager,
              disk |-> r.disk, pc |-> r.pc, version |-> r.version,
              code_changed |-> r.code_changed, old |-> m.auto_apply, result |-> r.result]

\* ------------------------------------------------------------ server.py
\* The names _get_provider has an adapter class for.
AdapterNames == {"anthropic", "openai", "google", "xai", "ollama", "vllm", "llamacpp"}

\* server._get_provider: the registry afterwards, or the HTTPException raised
_get_provider(reg, name) ==
    IF name \in reg THEN [ok |-> TRUE, status |-> 0, registry |-> reg]
    ELSE IF name \notin ConfiguredNames THEN [ok |-> FALSE, status |-> 404, registry |-> reg]
    ELSE IF name \in AdapterNames THEN [ok |-> TRUE, status |-> 0, registry |-> reg \cup {name}]
    ELSE [ok |-> FALSE, status |-> 400, registry |-> reg]

RECURSIVE FallbackWalk(_, _, _, _)
\* the fallback loop of _get_provider_with_fallback, from the i-th available provider
FallbackWalk(reg, names, i, provider_name) ==
    IF i > Len(names)
    THEN [ok |-> FALSE, status |-> 503, provider |-> provider_name, model |-> "",
          registry |-> reg]
    ELSE IF names[i] = provider_name THEN FallbackWalk(reg, names, i + 1, provider_name)
    ELSE LET g == _get_provider(reg, names[i])
         IN  IF g.ok
             THEN [ok |-> TRUE, status |-> 0, provider |-> names[i],
                   model |-> get_provider(names[i]).default_model, registry |-> g.registry]
             ELSE FallbackWalk(reg, names, i + 1, provider_name)

\* server._get_provider_with_fallback
_get_provider_with_fallback(reg, model_str, fallback) ==
    LET rm == Resolved[model_str]
        g == _get_provider(reg, rm[1])
    IN  IF g.ok
        THEN [ok |-> TRUE, status |-> 0, provider |-> rm[1], model |-> rm[2],
              registry |-> g.registry]
        ELSE IF ~fallback
        THEN [ok |-> FALSE, status |-> g.status, provider |-> rm[1], model |-> rm[2],
              registry |-> reg]
        ELSE FallbackWalk(reg, get_available_providers, 1, rm[1])

\* ---------------------------------------- the breaker driven call by call
\* A provider's circuit as the next reference to it sees it.
Circuit(cs, provider) == _get(cs, provider)[provider]

NoCall == [op |-> "none", provider |-> "", ret |-> FALSE]

\* hist[p].failures: record_failure calls on p's CLOSED circuit since it was
\* last closed or last recorded a success. hist[p].probes: record_success
\* calls on p's HALF_OPEN circuit since it last entered HALF_OPEN.
NoHist == [failures |-> 0, probes |-> 0]

HistAfter(h, op, s, s2) ==
    [failures |->
        IF s2.state # CLOSED \/ s.state # CLOSED THEN 0
        ELSE IF op \in {"record_success", "force_close", "reset"} THEN 0
        ELSE IF op = "record_failure" THEN h.failures + 1
        ELSE h.failures,
     probes |->
        IF s2.state # HALF_OPEN \/ s.state # HALF_OPEN THEN 0
        ELSE IF op = "record_success" THEN h.probes + 1
        ELSE h.probes]

\* The history after a call of breaker method op on p that leaves circuits cs2.
HistStep(op, p, cs2) ==
    [hist EXCEPT ![p] = HistAfter(@, op, Circuit(circuits, p), Circuit(cs2, p))]

\* mlog.errors[p]: the times of the record_error calls for p since the last
\* successful heal of p. mlog.fires[p]: the times the heal callbacks were
\* fired for p. mlog.open: the providers with a firing that no
\* handle_heal_complete has followed.
NoLog ==
    [errors |-> [p \in BreakerNames |-> << >>], fires |-> [p \in BreakerNames |-> << >>],
     open |-> {}]

\* A client's request slot before any request.
IdleReq ==
    [pc |-> "idle", endpoint |-> "", model_str |-> "", provider |-> "", model |-> "",
     gate |-> {}, called |-> {}, outcome |-> "", status |-> 0, detail |-> << >>]

\* The slots of the requests in flight at once; a slot keeps its response
\* until the next request is accepted.
Clients == {1, 2}

InitCommon ==
    /\ now = 0
    /\ circuits = << >>
    /\ lastCall = NoCall
    /\ hist = [p \in BreakerNames |-> NoHist]
    /\ _providers = {}
    /\ monitor = on_heal_request(HealthMonitor, "_on_heal_request")
    /\ req = [c \in Clients |-> IdleReq]
    /\ served = 0
    /\ mlog = NoLog
    /\ _reload_manager = ReloadManager(auto_apply_fixes)
    /\ disk = Disk
    /\ fix_calls = {}
    /\ threads = [t \in Threads |-> IdleThread]
    /\ _provider_lock = {}
    /\ constructed = << >>
    /\ resolver = NoCalls
    /\ heal = NoHeal
    /\ reply = NoReply
    /\ response = NoResponse
    /\ stream = NoStream

InitBreaker ==
    /\ InitCommon
    /\ enable_fallback = TRUE

\* time passes
Tick ==
    /\ now < MaxTime
    /\ now' = now + 1
    /\ lastCall' = NoCall
    /\ UNCHANGED <<circuits, hist, routerVars, reloadVars, registryVars, resolver, stream, response, reply, heal>>

CanExecute ==
    \E p \in BreakerNames :
        LET r == can_execute(circuits, p, now)
        IN  /\ circuits' = r.circuits
            /\ lastCall' = [op |-> "can_execute", provider |-> p, ret |-> r.ret]
            /\ hist' = HistStep("can_execute", p, r.circuits)
            /\ UNCHANGED <<now, routerVars, reloadVars, registryVars, resolver, stream, response, reply, heal>>

RecordSuccess ==
    \E p \in BreakerNames :
        LET cs2 == record_success(circuits, p, now)
        IN  /\ circuits' = cs2
            /\ lastCall' = [op |-> "record_success", provider |-> p, ret |-> FALSE]
            /\ hist' = HistStep("record_success", p, cs2)
            /\ UNCHANGED <<now, routerVars, reloadVars, registryVars, resolver, stream, response, reply, heal>>

RecordFailure ==
    \E p \in BreakerNames :
        LET r == record_failure(circuits, p, now)
        IN  /\ CountersBelowCap(circuits, p)
            /\ circuits' = r.circuits
            /\ lastCall' = [op |-> "record_failure", provider |-> p, ret |-> r.ret]
            /\ hist' = HistStep("record_failure", p, r.circuits)
            /\ UNCHANGED <<now, routerVars, reloadVars, registryVars, resolver, stream, response, reply, heal>>

ForceOpen ==
    \E p \in BreakerNames :
        LET cs2 == force_open(circuits, p, now)
        IN  /\ circuits' = cs2
            /\ lastCall' = [op |-> "force_open", provider |-> p, ret |-> FALSE]
            /\ hist' = HistStep("force_open", p, cs2)
            /\ UNCHANGED <<now, routerVars, reloadVars, registryVars, resolver, stream, response, reply, heal>>

ForceClose ==
    \E p \in BreakerNames :
        LET cs2 == force_close(circuits, p, now)
        IN  /\ circuits' = cs2
            /\ lastCall' = [op |-> "force_close", provider |-> p, ret |-> FALSE]
            /\ hist' = HistStep("force_close", p, cs2)
            /\ UNCHANGED <<now, routerVars, reloadVars, registryVars, resolver, stream, response, reply, heal>>

Reset ==
    \E p \in BreakerNames :
        LET cs2 == reset(circuits, p)
        IN  /\ circuits' = cs2
            /\ lastCall' = [op |-> "reset", provider |-> p, ret |-> FALSE]
            /\ hist' = HistStep("reset", p, cs2)
            /\ UNCHANGED <<now, routerVars, reloadVars, registryVars, resolver, stream, response, reply, heal>>

NextBreaker ==
    \/ Tick
    \/ CanExecute
    \/ RecordSuccess
    \/ RecordFailure
    \/ ForceOpen
    \/ ForceClose
    \/ Reset

SpecBreaker == InitBreaker /\ [][NextBreaker]_vars

\* --------------------------------------- the monitor driven call by call
\* The providers and the errors the monitor is exercised with: a transient
\* error and one that is not.
MonitorNames == {"ollama", "anthropic"}
MonitorErrors == {RateLimited, UpstreamFailed}
\* record_error calls in one run.
MaxErrors == 3

\* A monitor with two callbacks registered, COOLDOWN_SECONDS either 0 (as
\* the tests set it) or the configured value.
InitMonitor ==
    /\ now = 0
    /\ circuits = << >>
    /\ lastCall = NoCall
    /\ hist = [p \in BreakerNames |-> NoHist]
    /\ enable_fallback = TRUE
    /\ _providers = {}
    /\ req = [c \in Clients |-> IdleReq]
    /\ served = 0
    /\ mlog = NoLog
    /\ _reload_manager = ReloadManager(auto_apply_fixes)
    /\ disk = Disk
    /\ fix_calls = {}
    /\ threads = [t \in Threads |-> IdleThread]
    /\ _provider_lock = {}
    /\ constructed = << >>
    /\ resolver = NoCalls
    /\ heal = NoHeal
    /\ reply = NoReply
    /\ response = NoResponse
    /\ stream = NoStream
    /\ \E cooldown \in {0, COOLDOWN_SECONDS} :
          monitor = [on_heal_request(on_heal_request(HealthMonitor, "cb1"), "cb2")
                     EXCEPT !.COOLDOWN_SECONDS = cooldown]

\* await monitor.record_error(p, model, error), the callbacks returning at once
RecordError ==
    \E p \in MonitorNames, error \in MonitorErrors :
        LET r == record_error(monitor, p, "test-model", error, now)
        IN  /\ served < MaxErrors
            /\ served' = served + 1
            /\ monitor' = r.monitor
            /\ lastCall' = [op |-> "record_error", provider |-> p, ret |-> r.ret,
                            calls |-> r.calls]
            /\ mlog' = [mlog EXCEPT !.errors[p] = Append(@, now),
                                    !.fires[p] = IF r.ret THEN Append(@, now) ELSE @,
                                    !.open = IF r.ret THEN @ \cup {p} ELSE @]
            /\ UNCHANGED <<now, circuits, hist, enable_fallback, reloadVars, _providers, req,
                           registryVars, resolver, stream, response, reply, heal>>

\* monitor.record_success(p)
MonitorRecordSuccess ==
    \E p \in MonitorNames :
        /\ monitor' = HealthMonitor_record_success(monitor, p)
        /\ lastCall' = [op |-> "monitor.record_success", provider |-> p, ret |-> FALSE]
        /\ UNCHANGED <<now, circuits, hist, enable_fallback, reloadVars, _providers, req,
                       served, mlog, registryVars, resolver, stream, response, reply, heal>>

\* await monitor.handle_heal_complete(p, success), which only a heal cycle
\* that a firing for p started calls; lastCall.ret is success
HandleHealComplete ==
    \E p \in MonitorNames, success \in BOOLEAN :
        /\ p \in mlog.open
        /\ monitor' = handle_heal_complete(monitor, p, success)
        /\ lastCall' = [op |-> "handle_heal_complete", provider |-> p, ret |-> success]
        /\ mlog' = [mlog EXCEPT !.errors[p] = IF success THEN << >> ELSE @,
                                !.open = @ \ {p}]
        /\ UNCHANGED <<now, circuits, hist, enable_fallback, reloadVars, _providers, req,
                       served, registryVars, resolver, stream, response, reply, heal>>

NextMonitor ==
    \/ Tick
    \/ RecordError
    \/ MonitorRecordSuccess
    \/ HandleHealComplete

SpecMonitor == InitMonitor /\ [][NextMonitor]_vars

\* ---------------------------------- the reload manager driven call by call
\* Calls of apply_fix and approve_fix accepted.
MaxFixes == 3

\* The fix proposals: fix_type, confidence in hundredths, and fix_code.
Proposals ==
    {[fix_type |-> "workaround", confidence |-> 50, fix_code |-> "patch"],
     [fix_type |-> "code_patch", confidence |-> 90, fix_code |-> "patch"],
     [fix_type |-> "no_fix_needed", confidence |-> 90, fix_code |-> ""]}

\* The reasons reject_fix is called with.
Reasons == {"not needed"}

\* The seconds that pass before a call of apply_fix or approve_fix for p. The
\* clock is read by _backup_adapter only, for the path and the timestamp of
\* the backup, so a second passes only where that makes a difference: where
\* the backup taken now would get the path of an earlier one.
Elapsed(p) ==
    LET path == <<p, GetOr(_reload_manager.current_version, p, 0) + 1, now>>
        vs == GetOr(_reload_manager.versions, p, << >>)
    IN  IF now < MaxTime
           /\ (path \in DOMAIN disk.backups \/ \E i \in DOMAIN vs : vs[i].backup_path = path)
        THEN {0, 1} ELSE {0}

\* The providers fixes are applied to.
FixNames == {"anthropic"}

InitReload ==
    /\ now = 0
    /\ circuits = << >>
    /\ lastCall = NoCall
    /\ hist = [p \in BreakerNames |-> NoHist]
    /\ enable_fallback = TRUE
    /\ _providers = {}
    /\ monitor = HealthMonitor
    /\ req = [c \in Clients |-> IdleReq]
    /\ served = 0
    /\ mlog = NoLog
    /\ _reload_manager = ReloadManager(auto_apply_fixes)
    /\ disk = Disk
    /\ fix_calls = {}
    /\ threads = [t \in Threads |-> IdleThread]
    /\ _provider_lock = {}
    /\ constructed = << >>
    /\ resolver = NoCalls
    /\ heal = NoHeal
    /\ reply = NoReply
    /\ response = NoResponse
    /\ stream = NoStream

\* An apply_fix call awaiting verify_callback: the AdapterVersion it made,
\* its code_changed, whether approve_fix made the call (via) and the
\* auto_apply approve_fix restores then (old).
Awaiting(p, r, via, old) ==
    [provider |-> p, version |-> r.version, code_changed |-> r.code_changed,
     via |-> via, old |-> old]

\* await manager.apply_fix(p, fix_proposal, verify_callback), up to its
\* return or to the await of verify_callback
ApplyFixOf(p, fix_proposal, verify_callback) ==
      \E dt \in Elapsed(p) :
        \E r \in {apply_fix(_reload_manager, disk, p, fix_proposal, verify_callback,
                           now + dt, served + 1)} :
            /\ Cardinality(fix_calls) < Cardinality(Clients)
            /\ now' = now + dt
            /\ served' = served + 1
            /\ _reload_manager' = r.manager
            /\ disk' = r.disk
            /\ fix_calls' = IF r.pc = "verifying"
                            THEN fix_calls \cup {Awaiting(p, r, "apply_fix", FALSE)}
                            ELSE fix_calls
            /\ lastCall' = [op |-> "apply_fix", provider |-> p, ret |-> r.pc = "done",
                            fix_proposal |-> fix_proposal, result |-> r.result]
            /\ UNCHANGED <<circuits, hist, enable_fallback, _providers, monitor, req, mlog,
                           registryVars, resolver, stream, response, reply, heal>>

\* await manager.approve_fix(p, verify_callback), up to its return or to the
\* await of verify_callback inside apply_fix
ApproveFixOf(p, verify_callback) ==
      \E dt \in Elapsed(p) :
        \E r \in {approve_fix(_reload_manager, disk, p, verify_callback, now + dt,
                             served + 1)} :
            /\ Cardinality(fix_calls) < Cardinality(Clients)
            /\ now' = now + dt
            /\ served' = IF p \in DOMAIN _reload_manager.pending_fixes
                         THEN served + 1 ELSE served
            /\ _reload_manager' = r.manager
            /\ disk' = r.disk
            /\ fix_calls' = IF r.pc = "verifying"
                            THEN fix_calls \cup {Awaiting(p, r, "approve_fix", r.old)}
                            ELSE fix_calls
            /\ lastCall' = [op |-> "approve_fix", provider |-> p, ret |-> r.pc = "done",
                            result |-> r.result]
            /\ UNCHANGED <<circuits, hist, enable_fallback, _providers, monitor, req, mlog,
                           registryVars, resolver, stream, response, reply, heal>>

\* apply_fix called for the provider fixes are applied to
ApplyFix ==
    \E p \in FixNames, fix_proposal \in Proposals, verify_callback \in BOOLEAN :
        /\ served < MaxFixes
        /\ ApplyFixOf(p, fix_proposal, verify_callback)

\* approve_fix called for the provider fixes are applied to
ApproveFix ==
    \E p \in FixNames, verify_callback \in BOOLEAN :
        /\ served < MaxFixes
        /\ ApproveFixOf(p, verify_callback)

\* verify_callback returns to apply_fix, which runs to its return, and with
\* it approve_fix when it made the call
VerifyReturns ==
    \E f \in fix_calls, verified \in BOOLEAN :
        \E r \in {apply_fix_verified(_reload_manager, disk, f.provider, f.version,
                                    f.code_changed, verified)} :
            /\ _reload_manager' = IF f.via = "approve_fix"
                                  THEN approve_fix_finally(r.manager, f.old)
                                  ELSE r.manager
            /\ disk' = r.disk
            /\ fix_calls' = fix_calls \ {f}
            /\ lastCall' = [op |-> "apply_fix_verified", provider |-> f.provider,
                            ret |-> verified, call |-> f, result |-> r.result]
            /\ UNCHANGED <<now, circuits, hist, enable_fallback, _providers, monitor, req,
                           served, mlog, registryVars, resolver, stream, response, reply,
                           heal>>

\* manager.reject_fix(p, reason)
RejectFix ==
    \E p \in FixNames, reason \in Reasons :
        \E r \in {reject_fix(_reload_manager, disk, p, reason)} :
            /\ _reload_manager' = r.manager
            /\ disk' = r.disk
            /\ lastCall' = [op |-> "reject_fix", provider |-> p, ret |-> r.ret,
                            reason |-> reason]
            /\ UNCHANGED <<now, circuits, hist, enable_fallback, _providers, monitor, req,
                           served, mlog, fix_calls, registryVars, resolver, stream, response,
                           reply, heal>>

\* await manager.rollback_to_version(p, version)
RollbackToVersion ==
    \E p \in FixNames, version \in 0 .. MaxFixes :
        \E r \in {rollback_to_version(_reload_manager, disk, p, version)} :
            /\ _reload_manager' = r.manager
            /\ disk' = r.disk
            /\ lastCall' = [op |-> "rollback_to_version", provider |-> p, ret |-> r.ret]
            /\ UNCHANGED <<now, circuits, hist, enable_fallback, _providers, monitor, req,
                           served, mlog, fix_calls, registryVars, resolver, stream, response,
                           reply, heal>>

NextReload ==
    \/ ApplyFix
    \/ ApproveFix
    \/ VerifyReturns
    \/ RejectFix
    \/ RollbackToVersion

SpecReload == InitReload /\ [][NextReload]_vars

\* ------------------- approvals and fixes of several providers, concurrently
\* The proposals whose confidence is below the threshold.
LowConfidence == {pr \in Proposals : pr.confidence < AUTO_APPLY_CONFIDENCE}

\* await manager.apply_fix(p, fix_proposal, verify) with a proposal of low
\* confidence, as _on_heal_request calls it
ApplyLowConfidence ==
    \E p \in ReloadNames, fix_proposal \in LowConfidence :
        /\ served < MaxFixes
        /\ ApplyFixOf(p, fix_proposal, TRUE)

\* await manager.approve_fix(p, verify), as the approve endpoint calls it
ApproveAny ==
    \E p \in ReloadNames :
        /\ served < MaxFixes
        /\ ApproveFixOf(p, TRUE)

NextApprove ==
    \/ ApplyLowConfidence
    \/ ApproveAny
    \/ VerifyReturns

SpecApprove == InitReload /\ [][NextApprove]_vars

\* ------------------------------------- the registry, thread by thread
\* The names the threads look up; "nope" is not configured.
LookupNames == {"ollama", "anthropic", "nope"}

\* _providers[name]: the adapter instance stored under name, the last one
\* constructed for it
Instance(built, name) ==
    LET is == {i \in DOMAIN built : built[i] = name}
    IN  CHOOSE i \in is : \A j \in is : j <= i

\* entering `with _provider_lock` as it would be if it did not wait for the
\* lock to be free
acquire_unguarded(lock, t) ==
    [ok |-> TRUE, lock |-> lock \cup {t}]

\* `with _provider_lock`, entered by thread t: whether t gets the lock now,
\* and the lock afterwards
acquire(lock, t) ==
    IF lock = {} THEN [ok |-> TRUE, lock |-> {t}] ELSE [ok |-> FALSE, lock |-> lock]

\* _get_provider from the choice of the adapter class on: the registry
\* afterwards, or the HTTPException raised
construct(reg, name) ==
    IF name \in AdapterNames THEN [ok |-> TRUE, status |-> 0, registry |-> reg \cup {name}]
    ELSE [ok |-> FALSE, status |-> 400, registry |-> reg]

\* A thread calls _get_provider(name) and peeks at the registry without the
\* lock.
Peek ==
    \E t \in Threads, name \in LookupNames :
        /\ threads[t].pc = "idle"
        /\ threads' = [threads EXCEPT ![t] =
                IF name \in _providers
                THEN [pc |-> "done", name |-> name,
                      instance |-> Instance(constructed, name), status |-> 0]
                ELSE [pc |-> "acquire", name |-> name, instance |-> 0, status |-> 0]]
        /\ UNCHANGED <<now, breakerVars, routerVars, reloadVars, _provider_lock, constructed,
                       resolver, stream, response, reply, heal>>

\* The thread gets the lock.
Acquire ==
    \E t \in Threads :
        LET a == acquire(_provider_lock, t)
        IN  /\ threads[t].pc = "acquire"
            /\ a.ok
            /\ _provider_lock' = a.lock
            /\ threads' = [threads EXCEPT ![t].pc = "locked"]
            /\ UNCHANGED <<now, breakerVars, routerVars, reloadVars, constructed, resolver, stream, response, reply,
                           heal>>

\* Holding the lock the thread checks the registry again, then the
\* configuration.
Recheck ==
    \E t \in Threads :
        LET name == threads[t].name
        IN  /\ threads[t].pc = "locked"
            /\ threads' = [threads EXCEPT ![t] =
                    IF name \in _providers
                    THEN [@ EXCEPT !.pc = "done", !.instance = Instance(constructed, name)]
                    ELSE IF name \notin ConfiguredNames
                    THEN [@ EXCEPT !.pc = "done", !.status = 404]
                    ELSE [@ EXCEPT !.pc = "construct"]]
            /\ _provider_lock' = IF name \in _providers \/ name \notin ConfiguredNames
                                 THEN _provider_lock \ {t} ELSE _provider_lock
            /\ UNCHANGED <<now, breakerVars, routerVars, reloadVars, constructed, resolver, stream, response, reply,
                           heal>>

\* The thread constructs the adapter, stores it in the registry, returns it
\* and leaves the lock.
Construct ==
    \E t \in Threads :
        LET name == threads[t].name
            c == construct(_providers, name)
        IN  /\ threads[t].pc = "construct"
            /\ _providers' = c.registry
            /\ constructed' = IF c.ok THEN Append(constructed, name) ELSE constructed
            /\ threads' = [threads EXCEPT ![t] =
                    IF c.ok
                    THEN [@ EXCEPT !.pc = "done", !.instance = Len(constructed) + 1]
                    ELSE [@ EXCEPT !.pc = "done", !.status = c.status]]
            /\ _provider_lock' = _provider_lock \ {t}
            /\ UNCHANGED <<now, breakerVars, enable_fallback, monitor, req, served, mlog,
                           reloadVars, resolver, stream, response, reply, heal>>

NextRegistry ==
    \/ Peek
    \/ Acquire
    \/ Recheck
    \/ Construct

\* The registry is empty and the lock free when the threads start.
InitRegistry ==
    /\ InitCommon
    /\ enable_fallback = TRUE

SpecRegistry == InitRegistry /\ [][NextRegistry]_vars

\* ---------------------------------------- resolve_model, call by call
\* resolve_model calls in one run.
MaxCalls == 2

\* The strings resolve_model is called with: aliases, provider:model pairs,
\* model ids with and without a colon, in either case, and the empty string.
ResolveStrings ==
    {"local", "gpt", "anthropic:claude-x", "nope:m", "llama3.1:8b", "claude-3",
     "GPT-4o", "grok-o3", "Gemini-2", "qwen2", "x", ""}

InitResolve ==
    /\ now = 0
    /\ circuits = << >>
    /\ lastCall = NoCall
    /\ hist = [p \in BreakerNames |-> NoHist]
    /\ enable_fallback = TRUE
    /\ _providers = {}
    /\ monitor = on_heal_request(HealthMonitor, "_on_heal_request")
    /\ req = [c \in Clients |-> IdleReq]
    /\ served = 0
    /\ mlog = NoLog
    /\ _reload_manager = ReloadManager(auto_apply_fixes)
    /\ disk = Disk
    /\ fix_calls = {}
    /\ threads = [t \in Threads |-> IdleThread]
    /\ _provider_lock = {}
    /\ constructed = << >>
    /\ resolver \in [inputs : [1 .. MaxCalls -> ResolveStrings], results : {<< >>}]
    /\ heal = NoHeal
    /\ reply = NoReply
    /\ response = NoResponse
    /\ stream = NoStream

\* config.resolve_model(alias), for the next string
ResolveModel ==
    /\ resolver.inputs # << >>
    /\ resolver' = [inputs |-> Tail(resolver.inputs),
                    results |-> Append(resolver.results,
                                       [alias |-> Head(resolver.inputs),
                                        ret |-> resolve_model(Head(resolver.inputs))])]
    /\ UNCHANGED <<now, breakerVars, routerVars, reloadVars, registryVars, stream, response, reply, heal>>

NextResolve == ResolveModel

SpecResolve == InitResolve /\ [][NextResolve]_vars

\* ------------------------------------------- chat_stream, frame by frame
\* Upstream events before the stream's end.
MaxChunks == 2

\* The adapters: the providers whose chat_stream reads the lines of an HTTP
\* response (LocalProvider, AnthropicProvider), and those that iterate an
\* SDK stream.
LineAdapters == {"ollama", "anthropic"}
SdkAdapters == {"openai", "google", "xai"}

\* What the upstream delivers: two chunks that carry text, a line or chunk
\* that carries none, and, in a line stream, the upstream's own "[DONE]".
UpstreamEvents(adapter) ==
    IF adapter \in LineAdapters THEN {"a", "b", "empty", "[DONE]"} ELSE {"a", "b", "empty"}

\* How the upstream ends: the iteration is exhausted, or it raises.
UpstreamEnds == {"eof", "fail"}

DONE == "[DONE]"

\* One turn of the loop of chat_stream, or the code after it: the
\* generator st afterwards. pc is "done" when the generator has returned
\* and "raised" when an exception has left it.
adapter_chat_stream(st) ==
    LET event == Head(st.upstream)
        rest == Tail(st.upstream)
        yield(frame) == [st EXCEPT !.upstream = rest, !.frames = Append(@, frame)]
    IN  IF event = "fail" THEN [st EXCEPT !.upstream = << >>, !.pc = "raised"]
        ELSE IF event = "eof" \/ (st.adapter \in LineAdapters /\ event = "[DONE]")
        THEN [st EXCEPT !.upstream = << >>, !.frames = Append(@, DONE), !.pc = "done"]
        ELSE IF event = "empty" /\ st.adapter # "xai" THEN [st EXCEPT !.upstream = rest]
        ELSE yield(event)

\* The upstream streams: up to MaxChunks events, then the end.
Upstreams(adapter) ==
    UNION {{Append(u, e) : u \in [1 .. n -> UpstreamEvents(adapter)], e \in UpstreamEnds} :
           n \in 0 .. MaxChunks}

InitStream ==
    /\ now = 0
    /\ circuits = << >>
    /\ lastCall = NoCall
    /\ hist = [p \in BreakerNames |-> NoHist]
    /\ enable_fallback = TRUE
    /\ _providers = {}
    /\ monitor = on_heal_request(HealthMonitor, "_on_heal_request")
    /\ req = [c \in Clients |-> IdleReq]
    /\ served = 0
    /\ mlog = NoLog
    /\ _reload_manager = ReloadManager(auto_apply_fixes)
    /\ disk = Disk
    /\ fix_calls = {}
    /\ threads = [t \in Threads |-> IdleThread]
    /\ _provider_lock = {}
    /\ constructed = << >>
    /\ resolver = NoCalls
    /\ heal = NoHeal
    /\ reply = NoReply
    /\ response = NoResponse
    /\ \E adapter \in LineAdapters \cup SdkAdapters :
         stream \in [adapter : {adapter}, upstream : Upstreams(adapter),
                     frames : {<< >>}, pc : {"streaming"}]

\* The consumer takes the generator one turn further.
StreamNext ==
    /\ stream.pc = "streaming"
    /\ stream' = adapter_chat_stream(stream)
    /\ UNCHANGED <<now, breakerVars, routerVars, reloadVars, registryVars, resolver, response, reply, heal>>

NextStream == StreamNext

SpecStream == InitStream /\ [][NextStream]_vars

\* ------------------------------------ the adapters' ChatResponse
\* Tool calls in one upstream response.
MaxToolCalls == 2

\* The finish or stop reasons an upstream reports to each adapter; "none"
\* is the field missing or null, and one value per adapter is unknown to
\* it. For openai (the Responses API) the reason is the status, with the
\* incomplete_details.reason of an incomplete response.
UpstreamReasons(adapter) ==
    CASE adapter = "anthropic" ->
            {"end_turn", "stop_sequence", "tool_use", "max_tokens", "refusal", "none"}
      [] adapter = "ollama" -> {"stop", "tool_calls", "length", "content_filter", "none"}
      [] adapter = "openai" ->
            {"completed", "incomplete:max_output_tokens", "incomplete:content_filter",
             "incomplete:other"}
      [] adapter = "google" -> {"STOP", "MAX_TOKENS", "SAFETY", "RECITATION", "none"}
      [] adapter = "xai" -> {"stop", "tool_calls", "length", "content_filter", "other", "none"}

\* The finish_reason each adapter gives the ChatResponse it builds from an
\* upstream response with this reason and this many tool calls.
finish_reason(adapter, reason, tools) ==
    CASE adapter = "anthropic" ->
            (CASE reason \in {"end_turn", "stop_sequence", "none"} -> "stop"
               [] reason = "tool_use" -> "tool_calls"
               [] reason = "max_tokens" -> "length"
               [] OTHER -> "stop")
      [] adapter = "ollama" ->
            (CASE reason \in {"stop", "none"} -> "stop"
               [] reason = "tool_calls" -> "tool_calls"
               [] reason = "length" -> "length"
               [] OTHER -> "stop")
      [] adapter = "openai" ->
            (CASE reason = "incomplete:max_output_tokens" -> "length"
               [] reason = "incomplete:content_filter" -> "content_filter"
               [] reason = "incomplete:other" -> "stop"
               [] OTHER -> IF tools > 0 THEN "tool_calls" ELSE "stop")
      [] adapter = "google" ->
            IF tools > 0 THEN "tool_calls"
            ELSE (CASE reason = "MAX_TOKENS" -> "length"
                    [] reason = "SAFETY" -> "content_filter"
                    [] OTHER -> "stop")
      [] adapter = "xai" ->
            (CASE reason \in {"stop", "none"} -> "stop"
               [] reason \in {"tool_calls", "length", "content_filter"} -> reason
               [] OTHER -> "stop")

InitNormalize ==
    /\ now = 0
    /\ circuits = << >>
    /\ lastCall = NoCall
    /\ hist = [p \in BreakerNames |-> NoHist]
    /\ enable_fallback = TRUE
    /\ _providers = {}
    /\ monitor = on_heal_request(HealthMonitor, "_on_heal_request")
    /\ req = [c \in Clients |-> IdleReq]
    /\ served = 0
    /\ mlog = NoLog
    /\ _reload_manager = ReloadManager(auto_apply_fixes)
    /\ disk = Disk
    /\ fix_calls = {}
    /\ threads = [t \in Threads |-> IdleThread]
    /\ _provider_lock = {}
    /\ constructed = << >>
    /\ resolver = NoCalls
    /\ heal = NoHeal
    /\ reply = NoReply
    /\ stream = NoStream
    /\ \E adapter \in LineAdapters \cup SdkAdapters :
         response \in [adapter : {adapter}, reason : UpstreamReasons(adapter),
                       tools : 0 .. MaxToolCalls, out : {<< >>}]

\* The adapter builds the ChatResponse: its tool_calls (None when the
\* list is empty) and its finish_reason.
Normalize ==
    /\ response.out = << >>
    /\ response' = [response EXCEPT !.out =
            <<[tool_calls |-> response.tools,
               finish_reason |-> finish_reason(response.adapter, response.reason,
                                               response.tools)]>>]
    /\ UNCHANGED <<now, breakerVars, routerVars, reloadVars, registryVars, resolver, stream, reply, heal>>

NextNormalize == Normalize

SpecNormalize == InitNormalize /\ [][NextNormalize]_vars

\* --------------------------------------------- the gateway, step by step
\* HTTP requests the model serves in one run.
MaxRequests == 3

\* e.status_code or 502
StatusOr502(e) == IF e.status_code = None \/ e.status_code = 0 THEN 502 ELSE e.status_code

\* model_id or "unknown"
OrUnknown(model_id) == IF model_id = "" THEN "unknown" ELSE model_id

\* How the upstream answers a chat call: an HTTP status, or 0 when the
\* connection fails.
UpstreamStatuses == {0, 200, 400, 401, 404, 429, 500, 503}

\* BaseProvider._handle_error(response): the exception raised
_handle_error(status_code) ==
    CASE status_code = 401 ->
            [cls |-> "AuthenticationError", message |-> "Authentication failed.",
             status_code |-> 401]
      [] status_code = 429 -> RateLimited
      [] status_code = 404 ->
            [cls |-> "ModelNotFoundError", message |-> "Model not found.", status_code |-> 404]
      [] OTHER -> [cls |-> "ProviderError", message |-> "upstream", status_code |-> status_code]

\* provider.chat(req): what the call ends with. The adapters over httpx
\* (anthropic, local) raise through _handle_error and do not wrap a failed
\* connection; the adapters over an SDK wrap every exception in a
\* ProviderError without status code.
provider_chat(name, upstream) ==
    IF name \in SdkAdapters
    THEN IF upstream = 200 THEN Ok
         ELSE [cls |-> "ProviderError", message |-> "sdk", status_code |-> None]
    ELSE IF upstream = 0 THEN TransportFailed
    ELSE IF upstream = 200 THEN Ok
    ELSE _handle_error(upstream)

\* chat: the HTTP status of the response, by the except clause that takes
\* the outcome
chat_status(out) ==
    IF out.cls = "ok" THEN 200
    ELSE IF out.cls = "RateLimitError" THEN 429
    ELSE IF out.cls \in ProviderErrorClasses THEN StatusOr502(out)
    ELSE 500

InitStatus ==
    /\ now = 0
    /\ circuits = << >>
    /\ lastCall = NoCall
    /\ hist = [p \in BreakerNames |-> NoHist]
    /\ enable_fallback = TRUE
    /\ _providers = {}
    /\ monitor = on_heal_request(HealthMonitor, "_on_heal_request")
    /\ req = [c \in Clients |-> IdleReq]
    /\ served = 0
    /\ mlog = NoLog
    /\ _reload_manager = ReloadManager(auto_apply_fixes)
    /\ disk = Disk
    /\ fix_calls = {}
    /\ threads = [t \in Threads |-> IdleThread]
    /\ _provider_lock = {}
    /\ constructed = << >>
    /\ resolver = NoCalls
    /\ heal = NoHeal
    /\ stream = NoStream
    /\ response = NoResponse
    /\ reply \in [provider : ConfiguredNames, upstream : UpstreamStatuses, raised : {""},
                   status : {0}]

\* provider.chat ends and chat answers.
ChatStatus ==
    /\ reply.status = 0
    /\ reply' = [reply EXCEPT
                    !.raised = provider_chat(reply.provider, reply.upstream).cls,
                    !.status = chat_status(provider_chat(reply.provider, reply.upstream))]
    /\ UNCHANGED <<now, breakerVars, routerVars, reloadVars, registryVars, resolver, stream,
                   response, heal>>

NextStatus == ChatStatus

SpecStatus == InitStatus /\ [][NextStatus]_vars

Init ==
    /\ InitCommon
    /\ enable_fallback \in BOOLEAN

\* A new request is accepted into the lowest slot that has none in flight.
Free(c) == req[c].pc \in {"idle", "done"}
Accepts(c) == served < MaxRequests /\ Free(c) /\ \A d \in Clients : d < c => ~Free(d)

\* The slots as a new request finds them: the responses already sent are gone.
Cleared == [c \in Clients |-> IF Free(c) THEN IdleReq ELSE req[c]]

\* POST /api/v1/chat, up to the await of provider.chat
chat ==
    \E c \in Clients, model_str \in ChatStrings :
        LET g == _get_provider_with_fallback(_providers, model_str, enable_fallback)
            ce == can_execute(circuits, g.provider, now)
            r0 == [IdleReq EXCEPT !.endpoint = "chat", !.model_str = model_str,
                                  !.provider = g.provider, !.model = g.model]
        IN  /\ Accepts(c)
            /\ served' = served + 1
            /\ _providers' = g.registry
            /\ IF ~g.ok THEN
                    /\ req' = [Cleared EXCEPT ![c] = [r0 EXCEPT !.pc = "done", !.status = g.status,
                                  !.detail = <<"No available providers">>]]
                    /\ UNCHANGED circuits
               ELSE IF circuit_breaker_enabled /\ ~ce.ret THEN
                    /\ circuits' = ce.circuits
                    /\ req' = [Cleared EXCEPT ![c] = [r0 EXCEPT !.pc = "done", !.status = 503,
                                  !.detail = <<"Provider", g.provider, "circuit open. Retry in",
                                               get_recovery_time(ce.circuits, g.provider, now)>>]]
               ELSE
                    /\ circuits' = IF circuit_breaker_enabled THEN ce.circuits ELSE circuits
                    /\ req' = [Cleared EXCEPT ![c] = [r0 EXCEPT !.pc = "awaiting",
                                  !.gate = IF circuit_breaker_enabled THEN {g.provider} ELSE {},
                                  !.called = {g.provider}]]
            /\ lastCall' = [op |-> "chat", provider |-> "", ret |-> FALSE]
            /\ hist' = IF g.ok /\ circuit_breaker_enabled
                       THEN HistStep("can_execute", g.provider, ce.circuits) ELSE hist
            /\ UNCHANGED <<now, mlog, enable_fallback, reloadVars, monitor, registryVars, resolver, stream, response,
                           reply, heal>>

\* POST /api/v1/chat, from the return of provider.chat to the response, or to
\* the await of the heal callbacks inside record_error
chat_returns ==
    \E c \in Clients, out \in Outcomes :
        LET r == req[c]
            p == r.provider
            re == record_error(monitor, p,
                               IF out.cls \in ProviderErrorClasses THEN r.model
                               ELSE OrUnknown(r.model), out, now)
            after(status) ==
                [r EXCEPT !.pc = IF out.cls # "ok" /\ self_healing_enabled /\ re.ret
                                 THEN "healing" ELSE "done",
                          !.outcome = out.cls, !.status = status]
        IN  /\ r.pc = "awaiting"
            /\ r.endpoint = "chat"
            /\ IF out.cls = "ok" THEN
                    /\ circuits' = IF circuit_breaker_enabled
                                   THEN record_success(circuits, p, now) ELSE circuits
                    /\ monitor' = IF self_healing_enabled
                                  THEN HealthMonitor_record_success(monitor, p) ELSE monitor
                    /\ req' = [req EXCEPT ![c] = after(200)]
               ELSE IF out.cls = "RateLimitError" THEN
                    /\ UNCHANGED circuits
                    /\ monitor' = IF self_healing_enabled THEN re.monitor ELSE monitor
                    /\ req' = [req EXCEPT ![c] = after(429)]
               ELSE IF out.cls \in ProviderErrorClasses THEN
                    /\ circuits' = IF circuit_breaker_enabled
                                   THEN record_failure(circuits, p, now).circuits ELSE circuits
                    /\ monitor' = IF self_healing_enabled THEN re.monitor ELSE monitor
                    /\ req' = [req EXCEPT ![c] = after(StatusOr502(out))]
               ELSE
                    /\ UNCHANGED circuits
                    /\ monitor' = IF self_healing_enabled THEN re.monitor ELSE monitor
                    /\ req' = [req EXCEPT ![c] = after(500)]
            /\ lastCall' = [op |-> "chat_returns", provider |-> "", ret |-> FALSE]
            /\ hist' = IF ~circuit_breaker_enabled THEN hist
                       ELSE IF out.cls = "ok" THEN HistStep("record_success", p, circuits')
                       ELSE IF out.cls \in ProviderErrorClasses \ {"RateLimitError"}
                       THEN HistStep("record_failure", p, circuits')
                       ELSE hist
            /\ UNCHANGED <<now, mlog, enable_fallback, reloadVars, _providers, served,
                           registryVars, resolver, stream, response, reply, heal>>

\* server._on_heal_request as record_error awaits it: the cycle ends verified
\* or failed (handle_heal_complete is called), or with the fix queued or an
\* exception (it is not); then the chat handler raises its HTTPException
HealResults == {"verified", "failed", "queued", "raised"}
chat_heal_returns ==
    \E c \in Clients, result \in HealResults :
        /\ req[c].pc = "healing"
        /\ monitor' = IF result = "verified"
                      THEN handle_heal_complete(monitor, req[c].provider, TRUE)
                      ELSE IF result = "failed"
                      THEN handle_heal_complete(monitor, req[c].provider, FALSE)
                      ELSE monitor
        /\ req' = [req EXCEPT ![c].pc = "done"]
        /\ lastCall' = [op |-> "chat_heal_returns", provider |-> "", ret |-> FALSE]
        /\ UNCHANGED <<now, mlog, circuits, hist, enable_fallback, reloadVars, _providers,
                       served, registryVars, resolver, stream, response, reply, heal>>

\* POST /api/v1/chat/stream: the adapter's chat_stream is called as the
\* response body is sent
chat_stream ==
    \E c \in Clients, model_str \in StreamStrings :
        LET g == _get_provider_with_fallback(_providers, model_str, enable_fallback)
            r0 == [IdleReq EXCEPT !.endpoint = "chat_stream", !.model_str = model_str,
                                  !.provider = g.provider, !.model = g.model, !.pc = "done"]
        IN  /\ Accepts(c)
            /\ served' = served + 1
            /\ _providers' = g.registry
            /\ req' = [Cleared EXCEPT ![c] =
                        IF g.ok THEN [r0 EXCEPT !.called = {g.provider}, !.status = 200]
                        ELSE [r0 EXCEPT !.status = g.status]]
            /\ lastCall' = [op |-> "chat_stream", provider |-> "", ret |-> FALSE]
            /\ UNCHANGED <<now, mlog, circuits, hist, enable_fallback, reloadVars, monitor,
                           registryVars, resolver, stream, response, reply, heal>>

\* POST /api/v1/embed: an exception of provider.embed is not handled (500)
embed ==
    \E c \in Clients, model_str \in EmbedStrings, out \in {Ok, UpstreamFailed} :
        LET rm == Resolved[model_str]
            g == _get_provider(_providers, rm[1])
            r0 == [IdleReq EXCEPT !.endpoint = "embed", !.model_str = model_str,
                                  !.provider = rm[1], !.model = rm[2], !.pc = "done"]
        IN  /\ Accepts(c)
            /\ served' = served + 1
            /\ _providers' = g.registry
            /\ req' = [Cleared EXCEPT ![c] =
                        IF g.ok THEN [r0 EXCEPT !.called = {rm[1]}, !.outcome = out.cls,
                                                !.status = IF out.cls = "ok" THEN 200 ELSE 500]
                        ELSE [r0 EXCEPT !.status = g.status]]
            /\ lastCall' = [op |-> "embed", provider |-> "", ret |-> FALSE]
            /\ UNCHANGED <<now, mlog, circuits, hist, enable_fallback, reloadVars, monitor,
                           registryVars, resolver, stream, response, reply, heal>>

\* The provider names the circuit endpoints are called with.
AdminNames == {"anthropic"}

\* POST /api/v1/circuit/{provider}/open
force_circuit_open ==
    \E p \in AdminNames :
        /\ served < MaxRequests
        /\ served' = served + 1
        /\ circuits' = IF circuit_breaker_enabled THEN force_open(circuits, p, now) ELSE circuits
        /\ lastCall' = [op |-> "force_circuit_open", provider |-> "", ret |-> FALSE]
        /\ hist' = IF circuit_breaker_enabled THEN HistStep("force_open", p, circuits') ELSE hist
        /\ UNCHANGED <<now, mlog, enable_fallback, reloadVars, _providers, monitor, req,
                       registryVars, resolver, stream, response, reply, heal>>

\* POST /api/v1/circuit/{provider}/close
force_circuit_close ==
    \E p \in AdminNames :
        /\ served < MaxRequests
        /\ served' = served + 1
        /\ circuits' = IF circuit_breaker_enabled THEN force_close(circuits, p, now) ELSE circuits
        /\ lastCall' = [op |-> "force_circuit_close", provider |-> "", ret |-> FALSE]
        /\ hist' = IF circuit_breaker_enabled THEN HistStep("force_close", p, circuits') ELSE hist
        /\ UNCHANGED <<now, mlog, enable_fallback, reloadVars, _providers, monitor, req,
                       registryVars, resolver, stream, response, reply, heal>>

\* POST /api/v1/circuit/{provider}/reset
reset_circuit ==
    \E p \in AdminNames :
        /\ served < MaxRequests
        /\ served' = served + 1
        /\ circuits' = IF circuit_breaker_enabled THEN reset(circuits, p) ELSE circuits
        /\ lastCall' = [op |-> "reset_circuit", provider |-> "", ret |-> FALSE]
        /\ hist' = IF circuit_breaker_enabled THEN HistStep("reset", p, circuits') ELSE hist
        /\ UNCHANGED <<now, mlog, enable_fallback, reloadVars, _providers, monitor, req,
                       registryVars, resolver, stream, response, reply, heal>>

\* POST /api/v1/healing/pause/{provider}
pause_healing ==
    \E p \in AdminNames :
        /\ monitor' = IF self_healing_enabled
                      THEN [monitor EXCEPT !.healing_in_progress = @ \ {p}] ELSE monitor
        /\ lastCall' = [op |-> "pause_healing", provider |-> "", ret |-> FALSE]
        /\ UNCHANGED <<now, mlog, circuits, hist, enable_fallback, reloadVars, _providers, req,
                       served, registryVars, resolver, stream, response, reply, heal>>

\* POST /api/v1/healing/resume/{provider}
resume_healing ==
    \E p \in AdminNames :
        /\ lastCall' = [op |-> "resume_healing", provider |-> "", ret |-> FALSE]
        /\ UNCHANGED <<now, mlog, circuits, hist, enable_fallback, reloadVars, _providers, monitor,
                       req, served, registryVars, resolver, stream, response, reply, heal>>

Next ==
    \/ Tick
    \/ chat
    \/ chat_returns
    \/ chat_heal_returns
    \/ chat_stream
    \/ embed
    \/ force_circuit_open
    \/ force_circuit_close
    \/ reset_circuit

Spec == Init /\ [][Next]_vars

\* The gateway with its chat, healing and circuit endpoints.
NextHealing ==
    \/ Tick
    \/ chat
    \/ chat_returns
    \/ chat_heal_returns
    \/ pause_healing
    \/ resume_healing
    \/ force_circuit_open
    \/ force_circuit_close
    \/ reset_circuit

SpecHealing == Init /\ [][NextHealing]_vars

\* ------------------------------------------------------- heal_worker.py
\* HealWorker.heal_model, as ArattaConfig.heal_model has it
heal_model == "local"

\* HealWorker.research_model: the default of __init__, an alias, or a
\* provider:model string
ResearchModels == {"grok", "xai:grok-4-1-fast"}

\* HealWorker.cloud_providers: the default of __init__, or what lifespan
\* passes, get_available_providers(), with the one API key of ProviderConfigs
\* or with all of them set
HealCloudDefault == <<"xai", "openai", "google", "anthropic">>
CloudProviderLists ==
    {HealCloudDefault, get_available_providers,
     <<"ollama", "anthropic", "openai", "google", "xai">>}

\* What _phase_research returns when no provider gave findings
NoDocs == "No current documentation found. Fix based on error analysis only."

\* len(result.strip()) > 50
MIN_FINDINGS == 50

\* research_model.split(":")[0]
SplitFirst(s) == IF Contains(s, ":") THEN SplitColon(s)[1] ELSE s

\* HealWorker._call_model up to the await of provider.chat: the call made,
\* to the provider resolve_model gives for the alias
_call_model(phase, model_alias) ==
    [phase |-> phase, alias |-> model_alias, provider |-> resolve_model(model_alias)[1]]

\* What provider.chat ends with: a response with this content, or an
\* exception with this message
Says(content) == [raised |-> FALSE, content |-> content]
Raises(message) == [raised |-> TRUE, content |-> message]

\* json.loads over the documents the models answer with: a diagnosis of a
\* transient failure, a diagnosis, and fix proposals
JsonValues ==
    [doc \in {"T", "D", "W", "P", "N"} |->
        CASE doc = "T" -> [is_transient |-> TRUE, fix_type |-> "", confidence |-> 0,
                           fix_code |-> ""]
          [] doc = "D" -> [is_transient |-> FALSE, fix_type |-> "", confidence |-> 0,
                           fix_code |-> ""]
          [] doc = "W" -> [is_transient |-> FALSE, fix_type |-> "workaround",
                           confidence |-> 50, fix_code |-> "patch"]
          [] doc = "P" -> [is_transient |-> FALSE, fix_type |-> "code_patch",
                           confidence |-> 90, fix_code |-> "patch"]
          [] doc = "N" -> [is_transient |-> FALSE, fix_type |-> "no_fix_needed",
                           confidence |-> 90, fix_code |-> ""]]

\* The fence of a markdown code block, three backquotes in the source,
\* written with tildes
FENCE == "~~~"

\* HealWorker._parse_json: the dict it returns, or that it raised (index()
\* finds no closing fence)
_parse_json(text, fallback) ==
    LET fence == IF Contains(text, FENCE \o "json") THEN FENCE \o "json"
                 ELSE IF Contains(text, FENCE) THEN FENCE ELSE ""
        rest == SubSeq(text, Find(text, fence) + Len(fence), Len(text))
        end == Find(rest, FENCE)
        cleaned == IF fence = "" THEN text ELSE SubSeq(rest, 1, end - 1)
    IN  IF fence # "" /\ end = 0 THEN [raised |-> TRUE, value |-> fallback]
        ELSE IF cleaned \in DOMAIN JsonValues
        THEN [raised |-> FALSE, value |-> JsonValues[cleaned]]
        ELSE [raised |-> FALSE, value |-> fallback]

\* The except clause of HealWorker.diagnose: the proposal it returns
heal_failed(message) ==
    LET error_str == Lower(message)
    IN  [fix_type |-> IF AnyIn(error_str, {"auth", "401", "key"}) THEN "auth_error"
                      ELSE IF AnyIn(error_str, {"timeout", "connect", "temporary"})
                      THEN "transient_error"
                      ELSE "heal_error",
         confidence |-> 0, fix_code |-> ""]

\* The proposal diagnose returns for a transient failure
Transient == [fix_type |-> "no_fix_needed", confidence |-> 80, fix_code |-> ""]

\* diagnose as it would be if a transient diagnosis did not end the cycle
diagnose_researches_transient(h, answer) ==
    LET diagnosis == _parse_json(answer.content,
                                 [is_transient |-> FALSE, fix_type |-> "",
                                  confidence |-> 0, fix_code |-> ""])
    IN  IF answer.raised THEN [h EXCEPT !.pc = "proposed",
                                       !.proposal = heal_failed(answer.content)]
        ELSE IF diagnosis.raised
        THEN [h EXCEPT !.pc = "proposed", !.proposal = heal_failed("substring not found")]
        ELSE [h EXCEPT !.pc = "research",
                       !.diagnosis = IF diagnosis.value.is_transient THEN "transient"
                                     ELSE "found",
                       !.calls = Append(@, _call_model("research", h.research_model))]

\* HealWorker.diagnose from the return of the model call of _phase_diagnose
\* to the await of the research model call, or to its return (pc "proposed")
diagnose(h, answer) ==
    LET diagnosis == _parse_json(answer.content,
                                 [is_transient |-> FALSE, fix_type |-> "",
                                  confidence |-> 0, fix_code |-> ""])
    IN  IF answer.raised THEN [h EXCEPT !.pc = "proposed",
                                       !.proposal = heal_failed(answer.content)]
        ELSE IF diagnosis.raised
        THEN [h EXCEPT !.pc = "proposed", !.proposal = heal_failed("substring not found")]
        ELSE IF diagnosis.value.is_transient
        THEN [h EXCEPT !.pc = "proposed", !.diagnosis = "transient",
                       !.proposal = Transient]
        ELSE [h EXCEPT !.pc = "research", !.diagnosis = "found",
                       !.calls = Append(@, _call_model("research", h.research_model))]

\* The loop of _phase_research: the first index from i on whose cloud name is
\* not skipped, 0 when there is none
next_cloud(h, i) ==
    LET js == {j \in i .. Len(h.cloud_providers) :
                    h.cloud_providers[j] # SplitFirst(h.research_model)}
    IN  IF js = {} THEN 0 ELSE CHOOSE j \in js : \A k \in js : j <= k

\* _phase_research as it would be if it gave up after the research model
_phase_research_gives_up(h, answer) ==
    IF ~answer.raised /\ Len(answer.content) > MIN_FINDINGS
    THEN [h EXCEPT !.pc = "fix", !.research = answer.content,
                   !.calls = Append(@, _call_model("fix", heal_model))]
    ELSE [h EXCEPT !.pc = "fix", !.research = NoDocs,
                   !.calls = Append(@, _call_model("fix", heal_model))]

\* HealWorker._phase_research from the return of a model call (of the
\* research model when h.i = 0, of cloud provider h.i otherwise) to the await
\* of the next one: of the next cloud provider, or of the fix model
_phase_research(h, answer) ==
    LET j == next_cloud(h, h.i + 1)
    IN  IF ~answer.raised /\ Len(answer.content) > MIN_FINDINGS
        THEN [h EXCEPT !.pc = "fix", !.research = answer.content,
                       !.calls = Append(@, _call_model("fix", heal_model))]
        ELSE IF j # 0
        THEN [h EXCEPT !.pc = "fallback", !.i = j,
                       !.calls = Append(@, _call_model("research", h.cloud_providers[j]))]
        ELSE [h EXCEPT !.pc = "fix", !.research = NoDocs,
                       !.calls = Append(@, _call_model("fix", heal_model))]

\* HealWorker._phase_fix from the return of its model call, and diagnose to
\* its return
_phase_fix(h, answer) ==
    LET result == _parse_json(answer.content,
                              [is_transient |-> FALSE, fix_type |-> "no_fix_needed",
                               confidence |-> 10, fix_code |-> ""])
    IN  IF answer.raised THEN [h EXCEPT !.pc = "proposed",
                                       !.proposal = heal_failed(answer.content)]
        ELSE IF result.raised
        THEN [h EXCEPT !.pc = "proposed", !.proposal = heal_failed("substring not found")]
        ELSE [h EXCEPT !.pc = "proposed",
                       !.proposal = [fix_type |-> result.value.fix_type,
                                     confidence |-> result.value.confidence,
                                     fix_code |-> result.value.fix_code]]

\* ------------------------------------ server.py, the heal cycle of a chat
\* The HTTPException the chat handler raises for the adapter's error
chat_error_status(error) ==
    IF error.cls = "RateLimitError" THEN 429
    ELSE IF error.cls \in ProviderErrorClasses THEN StatusOr502(error)
    ELSE 500

\* _fire_heal as it would be if it did not catch what a callback raises
_fire_heal_next_uncaught(callbacks, cb, raised) ==
    IF raised THEN [pc |-> "ended", cb |-> cb, ret |-> "raised"]
    ELSE IF cb < Len(callbacks) THEN [pc |-> "callback", cb |-> cb + 1, ret |-> ""]
    ELSE [pc |-> "ended", cb |-> cb, ret |-> "returned"]

\* HealthMonitor._fire_heal, its loop after callback cb ended (raised: with an
\* exception): the next callback, or record_error returns
_fire_heal_next(callbacks, cb, raised) ==
    IF cb < Len(callbacks) THEN [pc |-> "callback", cb |-> cb + 1, ret |-> ""]
    ELSE [pc |-> "ended", cb |-> cb, ret |-> "returned"]

\* The heal cycle after a callback ended: what record_error does, and the
\* status the chat handler answers with (500 when record_error raised)
end_callback(h, callbacks, raised) ==
    LET n == _fire_heal_next(callbacks, h.cb, raised)
    IN  [h EXCEPT !.pc = n.pc, !.cb = n.cb, !.ret = n.ret,
                  !.status = IF n.ret = "returned" THEN chat_error_status(h.error)
                             ELSE IF n.ret = "raised" THEN 500 ELSE 0]

\* _on_heal_request from the return of diagnose to the return of apply_fix,
\* or to the await of verify inside it; backup_ok: _backup_adapter does not
\* raise
on_proposal(m, d, provider, proposal, backup_ok, t, id) ==
    LET queued == ~m.auto_apply /\ proposal.confidence < m.auto_apply_threshold
    IN  IF queued \/ backup_ok THEN apply_fix(m, d, provider, proposal, TRUE, t, id)
        ELSE [manager |-> m, disk |-> d, pc |-> "done", version |-> None,
              code_changed |-> FALSE,
              result |-> FixApplication(FALSE, provider,
                                        GetOr(m.current_version, provider, 0), "Failed")]

\* _on_heal_request after apply_fix returned result: the monitor afterwards
on_heal_result(m, provider, result) ==
    IF result.success THEN handle_heal_complete(m, provider, TRUE)
    ELSE IF ~Contains(result.message, "Queued") THEN handle_heal_complete(m, provider, FALSE)
    ELSE m

\* The providers whose chat fails, and the callbacks registered: lifespan's
\* _on_heal_request, alone or after a callback that raises
HealNames == ReloadNames
HealCallbackLists == {<<"_on_heal_request">>, <<"raising", "_on_heal_request">>}

\* What the heal model answers the diagnose prompt with, the research
\* providers the research prompt, and the heal model the fix prompt
DiagnoseReplies ==
    {Says("T"), Says(FENCE \o "jsonD" \o FENCE), Says(FENCE \o "jsonD"), Says("sorry"),
     Raises("Invalid API key.")}
ResearchReplies ==
    {Says("The chat endpoint now requires max_completion_tokens, not max_tokens."),
     Says("No results."), Raises("All connection attempts failed")}
FixReplies ==
    {Says("W"), Says(FENCE \o "P" \o FENCE), Says("N"), Says("sorry"),
     Raises("All connection attempts failed")}

InitHeal ==
    /\ now = 0
    /\ circuits = << >>
    /\ lastCall = NoCall
    /\ hist = [p \in BreakerNames |-> NoHist]
    /\ enable_fallback = TRUE
    /\ _providers = {}
    /\ req = [c \in Clients |-> IdleReq]
    /\ served = 0
    /\ mlog = NoLog
    /\ disk = Disk
    /\ fix_calls = {}
    /\ threads = [t \in Threads |-> IdleThread]
    /\ _provider_lock = {}
    /\ constructed = << >>
    /\ resolver = NoCalls
    /\ reply = NoReply
    /\ response = NoResponse
    /\ stream = NoStream
    /\ \E callbacks \in HealCallbackLists :
          monitor = [HealthMonitor EXCEPT !._heal_callbacks = callbacks]
    /\ \E auto_apply \in BOOLEAN : _reload_manager = ReloadManager(auto_apply)
    /\ \E r \in ResearchModels, c \in CloudProviderLists :
          heal = [NoHeal EXCEPT !.research_model = r, !.cloud_providers = c]

\* The heal cycle goes on from h: _on_heal_request applies the proposal
\* diagnose returned, up to the await of verify or to the end of the
\* callback; otherwise the cycle awaits the model call made
Continue(h) ==
    IF h.pc # "proposed"
    THEN /\ heal' = h
         /\ UNCHANGED <<monitor, reloadVars, served>>
    ELSE \E backup_ok \in BOOLEAN :
           \E r \in {on_proposal(_reload_manager, disk, h.provider, h.proposal, backup_ok,
                                 now, served + 1)} :
              /\ served' = served + 1
              /\ _reload_manager' = r.manager
              /\ disk' = r.disk
              /\ IF r.pc = "verifying"
                 THEN /\ fix_calls' = {Awaiting(h.provider, r, "apply_fix", FALSE)}
                      /\ heal' = [h EXCEPT !.pc = "verify"]
                      /\ UNCHANGED monitor
                 ELSE /\ UNCHANGED fix_calls
                      /\ monitor' = on_heal_result(monitor, h.provider, r.result)
                      /\ heal' = end_callback([h EXCEPT !.result = r.result.message],
                                              monitor._heal_callbacks, FALSE)

\* POST /api/v1/chat, its except clauses: record_error, up to the await of
\* the heal callbacks or to the HTTPException
ChatFails ==
    \E p \in HealNames, error \in Outcomes \ {Ok} :
        \E re \in {record_error(monitor, p, "test-model", error, now)} :
            /\ heal.pc = "idle"
            /\ served < MaxErrors
            /\ served' = served + 1
            /\ monitor' = re.monitor
            /\ heal' = IF re.ret
                       THEN [heal EXCEPT !.pc = "callback", !.cb = 1, !.provider = p,
                                         !.error = error, !.ret = "", !.status = 0]
                       ELSE [heal EXCEPT !.provider = p, !.error = error,
                                         !.ret = "returned",
                                         !.status = chat_error_status(error)]
            /\ lastCall' = [op |-> "record_error", provider |-> p, ret |-> re.ret]
            /\ UNCHANGED <<now, circuits, hist, enable_fallback, _providers, req, mlog,
                           reloadVars, registryVars, resolver, stream, response, reply>>

\* _fire_heal awaits callback heal.cb: one that raises, or _on_heal_request
\* up to the await of the diagnose model call
HealCallback ==
    /\ heal.pc = "callback"
    /\ heal' = IF monitor._heal_callbacks[heal.cb] = "raising"
               THEN end_callback(heal, monitor._heal_callbacks, TRUE)
               ELSE [heal EXCEPT !.pc = "diagnose",
                                 !.calls = <<_call_model("diagnose", heal_model)>>]
    /\ lastCall' = [op |-> "heal_callback", provider |-> heal.provider, ret |-> FALSE]
    /\ UNCHANGED <<now, circuits, hist, enable_fallback, _providers, monitor, req, served,
                   mlog, reloadVars, registryVars, resolver, stream, response, reply>>

\* The diagnose model call returns
DiagnoseReturns ==
    \E answer \in DiagnoseReplies :
        /\ heal.pc = "diagnose"
        /\ Continue(diagnose(heal, answer))
        /\ lastCall' = [op |-> "diagnose_returns", provider |-> heal.provider, ret |-> FALSE]
        /\ UNCHANGED <<now, circuits, hist, enable_fallback, _providers, req, mlog,
                       registryVars, resolver, stream, response, reply>>

\* A research model call returns: of the research model, or of a cloud
\* provider of the fallback loop
ResearchReturns ==
    \E answer \in ResearchReplies :
        /\ heal.pc \in {"research", "fallback"}
        /\ heal' = _phase_research(heal, answer)
        /\ lastCall' = [op |-> "research_returns", provider |-> heal.provider, ret |-> FALSE]
        /\ UNCHANGED <<now, circuits, hist, enable_fallback, _providers, monitor, req,
                       served, mlog, reloadVars, registryVars, resolver, stream, response,
                       reply>>

\* The fix model call returns
FixReturns ==
    \E answer \in FixReplies :
        /\ heal.pc = "fix"
        /\ Continue(_phase_fix(heal, answer))
        /\ lastCall' = [op |-> "fix_returns", provider |-> heal.provider, ret |-> FALSE]
        /\ UNCHANGED <<now, circuits, hist, enable_fallback, _providers, req, mlog,
                       registryVars, resolver, stream, response, reply>>

\* verify returns to the apply_fix _on_heal_request awaits, which runs to its
\* return, and the callback to its end
HealVerifyReturns ==
    \E f \in fix_calls, verified \in BOOLEAN :
        \E r \in {apply_fix_verified(_reload_manager, disk, f.provider, f.version,
                                    f.code_changed, verified)} :
            /\ heal.pc = "verify"
            /\ _reload_manager' = r.manager
            /\ disk' = r.disk
            /\ fix_calls' = {}
            /\ monitor' = on_heal_result(monitor, heal.provider, r.result)
            /\ heal' = end_callback([heal EXCEPT !.result = r.result.message],
                                    monitor._heal_callbacks, FALSE)
            /\ lastCall' = [op |-> "heal_verify_returns", provider |-> heal.provider,
                            ret |-> verified]
            /\ UNCHANGED <<now, circuits, hist, enable_fallback, _providers, req, served,
                           mlog, registryVars, resolver, stream, response, reply>>

\* POST /api/v1/fixes/{provider}/approve for the fix the cycle queued, up to
\* its response or to the await of verify
FixesApprove ==
    \E r \in {approve_fix(_reload_manager, disk, heal.provider, TRUE, now, served + 1)} :
        /\ heal.pc = "ended"
        /\ heal.provider \in DOMAIN _reload_manager.pending_fixes
        /\ served' = served + 1
        /\ _reload_manager' = r.manager
        /\ disk' = r.disk
        /\ fix_calls' = IF r.pc = "verifying"
                        THEN {Awaiting(heal.provider, r, "approve_fix", r.old)} ELSE {}
        /\ heal' = [heal EXCEPT !.pc = IF r.pc = "verifying" THEN "approving" ELSE "closed"]
        /\ lastCall' = [op |-> "fixes_approve", provider |-> heal.provider, ret |-> FALSE]
        /\ UNCHANGED <<now, circuits, hist, enable_fallback, _providers, monitor, req, mlog,
                       registryVars, resolver, stream, response, reply>>

\* verify returns to the apply_fix the approve endpoint awaits
ApproveVerifyReturns ==
    \E f \in fix_calls, verified \in BOOLEAN :
        \E r \in {apply_fix_verified(_reload_manager, disk, f.provider, f.version,
                                    f.code_changed, verified)} :
            /\ heal.pc = "approving"
            /\ _reload_manager' = approve_fix_finally(r.manager, f.old)
            /\ disk' = r.disk
            /\ fix_calls' = {}
            /\ heal' = [heal EXCEPT !.pc = "closed"]
            /\ lastCall' = [op |-> "approve_verify_returns", provider |-> heal.provider,
                            ret |-> verified]
            /\ UNCHANGED <<now, circuits, hist, enable_fallback, _providers, monitor, req,
                           served, mlog, registryVars, resolver, stream, response, reply>>

\* POST /api/v1/fixes/{provider}/reject for the fix the cycle queued
FixesReject ==
    \E r \in {reject_fix(_reload_manager, disk, heal.provider, "not needed")} :
        /\ heal.pc = "ended"
        /\ heal.provider \in DOMAIN _reload_manager.pending_fixes
        /\ _reload_manager' = r.manager
        /\ disk' = r.disk
        /\ heal' = [heal EXCEPT !.pc = "closed"]
        /\ lastCall' = [op |-> "fixes_reject", provider |-> heal.provider, ret |-> r.ret]
        /\ UNCHANGED <<now, circuits, hist, enable_fallback, _providers, monitor, req,
                       served, mlog, fix_calls, registryVars, resolver, stream, response,
                       reply>>

NextHeal ==
    \/ ChatFails
    \/ HealCallback
    \/ DiagnoseReturns
    \/ ResearchReturns
    \/ FixReturns
    \/ HealVerifyReturns
    \/ FixesApprove
    \/ ApproveVerifyReturns
    \/ FixesReject

SpecHeal == InitHeal /\ [][NextHeal]_vars

\* ------------------------------------------------------------ claims
\* The step is a call of breaker method op on provider p.
IsCall(op, p) == lastCall'.op = op /\ lastCall'.provider = p

\* The step is gateway handler op accepting a request into slot c.
Starts(op, c) == lastCall'.op = op /\ Accepts(c)

\* The step is the return of the adapter's chat to the handler of slot c.
Returns(c) ==
    lastCall'.op = "chat_returns" /\ req[c].pc = "awaiting" /\ req'[c].pc # "awaiting"

\* The available providers other than p whose circuit is closed, in ascending
\* priority order.
FallbackNames(p) ==
    SelectSeq(get_available_providers,
              LAMBDA q : q # p /\ Circuit(circuits, q).state = CLOSED)

\* The adapter failures that are neither a response nor a rate limit.
IsFailure(cls) == cls \notin {"ok", "RateLimitError"}

\* The newest error the monitor keeps for provider p.
LastError(m, p) ==
    LET h == GetOr(m.error_history, p, << >>)
    IN  IF h = << >> THEN [provider |-> "", error_type |-> "", timestamp |-> None]
        ELSE h[Len(h)]

\* C1: with fallback enabled, when the primary's adapter call of a chat
\* request fails with a non-rate-limit ProviderError or a transport failure
\* and another available provider has a closed circuit, the failure is
\* recorded in the primary's circuit and the request goes on to the first
\* such provider with that provider's default model, instead of ending with
\* the primary's error.
C1_FallbackAfterFailure ==
    [][\A c \in Clients :
        LET p == req[c].provider
            fb == FallbackNames(p)
        IN  (Returns(c) /\ enable_fallback /\ IsFailure(req'[c].outcome) /\ fb # << >>) =>
              /\ Circuit(circuits', p).failure_count = Circuit(circuits, p).failure_count + 1
              /\ req'[c].pc = "awaiting"
              /\ req'[c].provider = fb[1]
              /\ req'[c].model = get_provider(fb[1]).default_model
              /\ fb[1] \in req'[c].called]_vars

\* C2: when the adapter call of a chat request raises RateLimitError the
\* request ends with status 429, the primary is the only provider whose
\* adapter was called for it, whether or not fallback is enabled, and the
\* health monitor has the error as its newest one for the provider.
C2_RateLimitSurfaces ==
    [][\A c \in Clients :
        LET p == req[c].provider
            e == LastError(monitor', p)
        IN  (Returns(c) /\ req'[c].outcome = "RateLimitError") =>
              /\ req'[c].pc = "done"
              /\ req'[c].status = 429
              /\ req'[c].called = {p}
              /\ \A d \in Clients \ {c} : req'[d] = req[d]
              /\ e.provider = p
              /\ e.error_type = "rate_limit"
              /\ e.timestamp = now
              /\ e.model = req[c].model
              /\ monitor'.consecutive_failures[p] =
                    GetOr(monitor.consecutive_failures, p, 0) + 1]_vars

\* C2 witness: with fallback enabled and another available provider's circuit
\* closed, a chat request has just ended with 429 on a RateLimitError.
C2_Witness ==
    \E c \in Clients :
        /\ lastCall.op = "chat_returns"
        /\ enable_fallback
        /\ req[c].pc = "done"
        /\ req[c].outcome = "RateLimitError"
        /\ req[c].status = 429
        /\ FallbackNames(req[c].provider) # << >>
        /\ LastError(monitor, req[c].provider).error_type = "rate_limit"

\* C3: with fallback enabled, a chat request whose primary provider's gate
\* refuses, while another available provider has a closed circuit, skips the
\* primary and calls the first such provider instead of failing.
C3_GateRefusalFallsBack ==
    [][\A c \in Clients :
        LET p == req'[c].provider
            fb == FallbackNames(p)
        IN  (/\ Starts("chat", c)
             /\ enable_fallback
             /\ req'[c].status # 404
             /\ ~can_execute(circuits, p, now).ret
             /\ fb # << >>) =>
              /\ req'[c].pc = "awaiting"
              /\ req'[c].called = {fb[1]}]_vars

\* C4: with fallback disabled, the record_failure of a chat request that
\* brings the failures recorded on provider A's closed circuit to
\* failure_threshold opens it at the current time; until the recovery
\* timeout has elapsed only the circuit endpoints close it again; and a chat
\* request resolving to A in that time ends with status 503 and the detail
\* that A's circuit is open, without a call of A's adapter.
C4_OpenCircuitRefusesChat ==
    [][~enable_fallback =>
        /\ \A c \in Clients :
            LET p == req[c].provider
                s == Circuit(circuits, p)
                s2 == Circuit(circuits', p)
            IN  (/\ Returns(c)
                 /\ req'[c].outcome \in ProviderErrorClasses \ {"RateLimitError"}
                 /\ s.state = CLOSED
                 /\ hist[p].failures + 1 = failure_threshold) =>
                  s2.state = OPEN /\ s2.opened_at = now
        /\ \A p \in BreakerNames :
            LET s == Circuit(circuits, p)
                s2 == Circuit(circuits', p)
            IN  (/\ s.state = OPEN
                 /\ s.opened_at # None
                 /\ now' - s.opened_at < recovery_timeout_seconds
                 /\ lastCall'.op \notin {"force_circuit_close", "reset_circuit",
                                         "force_circuit_open"}) =>
                  s2.state = OPEN /\ s2.opened_at = s.opened_at
        /\ \A c \in Clients :
            LET p == req'[c].provider
                s == Circuit(circuits, p)
            IN  (/\ Starts("chat", c)
                 /\ s.state = OPEN
                 /\ s.opened_at # None
                 /\ now - s.opened_at < recovery_timeout_seconds) =>
                  /\ req'[c].pc = "done"
                  /\ req'[c].status = 503
                  /\ SubSeq(req'[c].detail, 1, 3) = <<"Provider", p, "circuit open. Retry in">>
                  /\ req'[c].called = {}
                  /\ Circuit(circuits', p) = s]_vars

\* C4 witness: with fallback disabled, a chat request has just been refused
\* with 503 by a circuit that failure_threshold recorded failures opened.
C4_Witness ==
    \E c \in Clients :
        /\ lastCall.op = "chat"
        /\ ~enable_fallback
        /\ req[c].pc = "done"
        /\ req[c].endpoint = "chat"
        /\ req[c].status = 503
        /\ req[c].called = {}
        /\ Circuit(circuits, req[c].provider).state = OPEN
        /\ Circuit(circuits, req[c].provider).failure_count = failure_threshold

\* C5: when the adapter call of a chat request returns, the outcome is in
\* both the breaker and the monitor before the handler responds: a response
\* is a recorded success in both, and any failure other than a rate limit is
\* a recorded failure in the breaker and the newest error in the monitor.
C5_OutcomeInBreakerAndMonitor ==
    [][\A c \in Clients :
        LET p == req[c].provider
            e == LastError(monitor', p)
        IN  Returns(c) =>
              /\ req'[c].outcome = "ok" =>
                    /\ circuits' = record_success(circuits, p, now)
                    /\ monitor' = HealthMonitor_record_success(monitor, p)
              /\ IsFailure(req'[c].outcome) =>
                    /\ Circuit(circuits', p).failure_count =
                          Circuit(circuits, p).failure_count + 1
                    /\ e.provider = p
                    /\ e.timestamp = now]_vars

\* C6: every provider whose adapter a request has called is one for which a
\* can_execute query of the same request returned true.
C6_EveryCallGated ==
    \A c \in Clients : req[c].called \subseteq req[c].gate

\* C7: a CLOSED circuit opens on a record_failure exactly when the failures
\* recorded since it was last closed or last recorded a success reach
\* failure_threshold; below that it stays CLOSED and can_execute is true; a
\* record_success in CLOSED sets the failure counter to 0.
C7_ClosedOpensAtThreshold ==
    [][\A p \in BreakerNames :
        LET s == Circuit(circuits, p)
            s2 == Circuit(circuits', p)
        IN  s.state = CLOSED =>
              /\ IsCall("record_failure", p) =>
                    /\ s2.state = OPEN <=> hist[p].failures + 1 = failure_threshold
                    /\ s2.state = CLOSED <=> hist[p].failures + 1 < failure_threshold
                    /\ s2.state = CLOSED => can_execute(circuits', p, now').ret
              /\ IsCall("record_success", p) =>
                    s2.state = CLOSED /\ s2.failure_count = 0
              /\ IsCall("can_execute", p) =>
                    lastCall'.ret /\ s2 = s]_vars

\* C7 witness: a record_failure has just opened a circuit at the threshold.
C7_Witness ==
    \E p \in BreakerNames :
        /\ lastCall = [op |-> "record_failure", provider |-> p, ret |-> TRUE]
        /\ p \in DOMAIN circuits
        /\ circuits[p].state = OPEN
        /\ circuits[p].failure_count = failure_threshold

\* C8: on an OPEN circuit can_execute returns false and changes nothing while
\* less than recovery_timeout has elapsed since opened_at; at or after the
\* timeout it moves the circuit to HALF_OPEN and returns true; on a HALF_OPEN
\* circuit it returns true.
C8_OpenGateUntilTimeout ==
    [][\A p \in BreakerNames :
        LET s == Circuit(circuits, p)
            s2 == Circuit(circuits', p)
        IN  IsCall("can_execute", p) =>
              /\ (s.state = OPEN /\ now - s.opened_at < recovery_timeout_seconds) =>
                    ~lastCall'.ret /\ circuits' = circuits
              /\ (s.state = OPEN /\ now - s.opened_at >= recovery_timeout_seconds) =>
                    lastCall'.ret /\ s2.state = HALF_OPEN
              /\ s.state = HALF_OPEN =>
                    lastCall'.ret /\ s2.state = HALF_OPEN /\ circuits' = circuits]_vars

\* C8 witness: can_execute has just let the probing call through, the timeout
\* having elapsed since the circuit opened.
C8_Witness ==
    \E p \in BreakerNames :
        /\ lastCall = [op |-> "can_execute", provider |-> p, ret |-> TRUE]
        /\ p \in DOMAIN circuits
        /\ circuits[p].state = HALF_OPEN
        /\ circuits[p].opened_at # None
        /\ now - circuits[p].opened_at >= recovery_timeout_seconds
        /\ recovery_timeout_seconds > 0

\* C9: a HALF_OPEN circuit closes on a record_success exactly when
\* success_threshold successes have been recorded since it last entered
\* HALF_OPEN, however it got there.
C9_HalfOpenClosesAtThreshold ==
    [][\A p \in BreakerNames :
        LET s == Circuit(circuits, p)
            s2 == Circuit(circuits', p)
        IN  (s.state = HALF_OPEN /\ IsCall("record_success", p)) =>
              /\ s2.state = CLOSED <=> hist[p].probes + 1 >= success_threshold
              /\ s2.state = HALF_OPEN <=> hist[p].probes + 1 < success_threshold]_vars

\* C10: a record_failure on a HALF_OPEN circuit moves it to OPEN, stamps
\* opened_at with the current time and sets the half-open success count to 0;
\* can_execute is then false until a full recovery_timeout after that failure.
C10_ProbeFailureReopens ==
    [][\A p \in BreakerNames :
        LET s == Circuit(circuits, p)
            s2 == Circuit(circuits', p)
        IN  (s.state = HALF_OPEN /\ IsCall("record_failure", p)) =>
              /\ s2.state = OPEN
              /\ s2.opened_at = now
              /\ s2.half_open_successes = 0
              /\ \A t \in now .. (now + recovery_timeout_seconds - 1) :
                    ~can_execute(circuits', p, t).ret
              /\ can_execute(circuits', p, now + recovery_timeout_seconds).ret]_vars

\* C10 witness: a probe failure has just reopened, at a later time, a circuit
\* that failure_threshold failures had opened.
C10_Witness ==
    \E p \in BreakerNames :
        /\ lastCall = [op |-> "record_failure", provider |-> p, ret |-> FALSE]
        /\ p \in DOMAIN circuits
        /\ circuits[p].state = OPEN
        /\ circuits[p].opened_at = now
        /\ now >= recovery_timeout_seconds
        /\ circuits[p].failure_count > failure_threshold

\* The circuits of the providers other than p are the same before and after.
OthersUntouched(p) ==
    \A q \in BreakerNames \ {p} :
        /\ q \in DOMAIN circuits <=> q \in DOMAIN circuits'
        /\ q \in DOMAIN circuits => circuits'[q] = circuits[q]

\* C11: record_failure returns should_heal = true exactly on the call that
\* moves the circuit from CLOSED to OPEN, and false on every other call.
C11_ShouldHealOnlyOnOpening ==
    [][\A p \in BreakerNames :
        LET s == Circuit(circuits, p)
            s2 == Circuit(circuits', p)
        IN  IsCall("record_failure", p) =>
              /\ lastCall'.ret <=> (s.state = CLOSED /\ s2.state = OPEN)
              /\ s.state = CLOSED /\ hist[p].failures + 1 < failure_threshold => ~lastCall'.ret
              /\ s.state \in {OPEN, HALF_OPEN} => ~lastCall'.ret]_vars

\* C11 witness: record_failure has just returned false on a circuit that
\* failure_threshold failures had opened, the call that opened it having
\* returned true.
C11_Witness ==
    \E p \in BreakerNames :
        /\ lastCall = [op |-> "record_failure", provider |-> p, ret |-> FALSE]
        /\ p \in DOMAIN circuits
        /\ circuits[p].state = OPEN
        /\ circuits[p].failure_count = failure_threshold + 1
        /\ circuits[p].opened_at = now

\* C12: a can_execute, record_success or record_failure call changes a
\* circuit's state only along CLOSED to OPEN (record_failure), OPEN to
\* HALF_OPEN (can_execute), HALF_OPEN to OPEN (record_failure) and HALF_OPEN
\* to CLOSED (record_success); a success or failure recorded while OPEN
\* leaves the state as it is.
C12_OnlyTheFourEdges ==
    [][\A p \in BreakerNames :
        LET s == Circuit(circuits, p)
            s2 == Circuit(circuits', p)
        IN  /\ IsCall("can_execute", p) =>
                \/ s2.state = s.state
                \/ s.state = OPEN /\ s2.state = HALF_OPEN
            /\ IsCall("record_success", p) =>
                \/ s2.state = s.state
                \/ s.state = HALF_OPEN /\ s2.state = CLOSED
            /\ IsCall("record_failure", p) =>
                \/ s2.state = s.state
                \/ s.state = CLOSED /\ s2.state = OPEN
                \/ s.state = HALF_OPEN /\ s2.state = OPEN
            /\ (s.state = OPEN /\ (IsCall("record_success", p) \/ IsCall("record_failure", p)))
                => s2.state = OPEN /\ s2.opened_at = s.opened_at
            /\ (\E op \in {"can_execute", "record_success", "record_failure"} : IsCall(op, p))
                => OthersUntouched(p)]_vars

\* C12 witness: a success has just been recorded on a circuit that is OPEN,
\* opened by failures, and it is still OPEN.
C12_Witness ==
    \E p \in BreakerNames :
        /\ lastCall = [op |-> "record_success", provider |-> p, ret |-> FALSE]
        /\ p \in DOMAIN circuits
        /\ circuits[p].state = OPEN
        /\ circuits[p].failure_count >= failure_threshold

\* C13: after force_open(p) can_execute(p) is false until recovery_timeout
\* has elapsed; after force_close(p) the circuit is CLOSED with failure
\* counter 0; after reset(p) the next reference to p sees a fresh CLOSED
\* circuit with all counters 0; whatever the state before, and none of them
\* changes another provider's circuit.
C13_AdminOverrides ==
    [][\A p \in BreakerNames :
        LET s2 == Circuit(circuits', p)
        IN  /\ IsCall("force_open", p) =>
                /\ s2.state = OPEN
                /\ \A t \in now .. (now + recovery_timeout_seconds - 1) :
                      ~can_execute(circuits', p, t).ret
                /\ can_execute(circuits', p, now + recovery_timeout_seconds).ret
                /\ OthersUntouched(p)
            /\ IsCall("force_close", p) =>
                /\ s2.state = CLOSED
                /\ s2.failure_count = 0
                /\ can_execute(circuits', p, now).ret
                /\ OthersUntouched(p)
            /\ IsCall("reset", p) =>
                /\ s2 = CircuitBreakerState
                /\ s2.state = CLOSED
                /\ s2.failure_count = 0
                /\ s2.half_open_successes = 0
                /\ OthersUntouched(p)]_vars

\* C13 witness: reset has just dropped a provider's circuit while another
\* provider's circuit is OPEN.
C13_Witness ==
    \E p \in BreakerNames :
        /\ lastCall = [op |-> "reset", provider |-> p, ret |-> FALSE]
        /\ p \notin DOMAIN circuits
        /\ \E q \in DOMAIN circuits : circuits[q].state = OPEN /\ circuits[q].failure_count > 0

\* The last time the heal callbacks were fired for p, None if never.
LastFire(p) ==
    IF mlog.fires[p] = << >> THEN None ELSE mlog.fires[p][Len(mlog.fires[p])]

\* How many of the times in log are less than WINDOW_SECONDS before t.
InWindow(log, t) == Cardinality({i \in DOMAIN log : t - log[i] < WINDOW_SECONDS})

\* The monitor's state for the providers other than p is the same before and
\* after.
MonitorOthersUntouched(p) ==
    \A q \in MonitorNames \ {p} :
        /\ GetOr(monitor'.error_history, q, << >>) = GetOr(monitor.error_history, q, << >>)
        /\ GetOr(monitor'.consecutive_failures, q, 0) = GetOr(monitor.consecutive_failures, q, 0)
        /\ q \in monitor'.healing_in_progress <=> q \in monitor.healing_in_progress
        /\ GetOr(monitor'.last_heal_request, q, None) = GetOr(monitor.last_heal_request, q, None)

\* C14: record_error(p, model, e) fires the heal callbacks if and only if p
\* is not in the healing-in-progress set, at least COOLDOWN seconds have
\* passed since the callbacks were last fired for p (or they never were), the
\* kind of e is not rate-limit, connection-error or timeout, and the errors
\* recorded for p within the last WINDOW seconds, this one included, are at
\* least ERROR_THRESHOLD.
C14_FiresIffFourConditions ==
    [][\A p \in MonitorNames :
        IsCall("record_error", p) =>
          /\ lastCall'.ret <=>
                /\ p \notin monitor.healing_in_progress
                /\ LastFire(p) = None \/ now - LastFire(p) >= monitor.COOLDOWN_SECONDS
                /\ LastError(monitor', p).error_type
                      \notin {"rate_limit", "connection_error", "timeout"}
                /\ InWindow(mlog'.errors[p], now) >= ERROR_THRESHOLD
          /\ lastCall'.ret <=> lastCall'.calls # << >>]_vars

\* C14 witness: the callbacks have just been fired for a provider that also
\* has an error older than the window on record.
C14_Witness ==
    \E p \in MonitorNames :
        /\ lastCall.op = "record_error"
        /\ lastCall.provider = p
        /\ lastCall.ret
        /\ \E i \in DOMAIN mlog.errors[p] : now - mlog.errors[p][i] >= WINDOW_SECONDS

\* C15: once the callbacks have fired for p, no record_error fires them for
\* p again until handle_heal_complete(p, .) has been called, also with
\* COOLDOWN = 0; a firing calls each registered callback exactly once, with
\* p, the error just recorded and the most recent errors of the history, at
\* most RECENT_ERRORS of them.
C15_OneFiringUntilComplete ==
    [][\A p \in MonitorNames :
        LET calls == lastCall'.calls
            h == monitor'.error_history[p]
        IN  IsCall("record_error", p) =>
              /\ p \in mlog.open => ~lastCall'.ret /\ calls = << >>
              /\ lastCall'.ret =>
                    /\ Len(calls) = Len(monitor._heal_callbacks)
                    /\ \A i \in DOMAIN calls :
                        LET r == calls[i].recent_errors
                        IN  /\ calls[i].callback = monitor._heal_callbacks[i]
                            /\ calls[i].provider = p
                            /\ calls[i].error = h[Len(h)]
                            /\ Len(r) <= RECENT_ERRORS
                            /\ Len(r) = RECENT_ERRORS \/ Len(r) = Len(h)
                            /\ \A k \in DOMAIN r : r[k] = h[Len(h) - Len(r) + k]]_vars

\* C15 witness: with COOLDOWN = 0, an error that is not transient has just
\* been recorded for a provider that is healing, with ERROR_THRESHOLD errors
\* before it, and the callbacks were not fired.
C15_Witness ==
    \E p \in MonitorNames :
        /\ monitor.COOLDOWN_SECONDS = 0
        /\ lastCall.op = "record_error"
        /\ lastCall.provider = p
        /\ ~lastCall.ret
        /\ p \in mlog.open
        /\ LastError(monitor, p).error_type = "unknown"
        /\ InWindow(mlog.errors[p], now) > ERROR_THRESHOLD

\* C17: two firings of the heal callbacks for the same provider are never
\* less than COOLDOWN seconds apart, whether or not the heal completed in
\* between.
C17_FiringsCooldownApart ==
    \A p \in MonitorNames :
        \A i \in DOMAIN mlog.fires[p] :
            i > 1 => mlog.fires[p][i] - mlog.fires[p][i - 1] >= monitor.COOLDOWN_SECONDS

\* C17 witness: with a COOLDOWN above 0 the callbacks have fired twice for a
\* provider, the heal having completed in between.
C17_Witness ==
    \E p \in MonitorNames :
        /\ monitor.COOLDOWN_SECONDS > 0
        /\ Len(mlog.fires[p]) >= 2
        /\ lastCall.op = "record_error"
        /\ lastCall.ret

\* C18: handle_heal_complete(p, success) removes p from the healing set; with
\* success it empties p's history and sets p's consecutive-failure counter to
\* 0, so that a single new error does not fire when ERROR_THRESHOLD is above
\* 1; without success it leaves both as they are; the other providers' state
\* is untouched.
C18_HealCompleteEffects ==
    [][\A p \in MonitorNames :
        IsCall("handle_heal_complete", p) =>
          /\ monitor'.healing_in_progress = monitor.healing_in_progress \ {p}
          /\ lastCall'.ret =>
                /\ monitor'.error_history[p] = << >>
                /\ monitor'.consecutive_failures[p] = 0
                /\ ERROR_THRESHOLD > 1 =>
                      \A e \in MonitorErrors :
                          ~record_error(monitor', p, "test-model", e, now).ret
          /\ ~lastCall'.ret =>
                /\ GetOr(monitor'.error_history, p, << >>)
                      = GetOr(monitor.error_history, p, << >>)
                /\ GetOr(monitor'.consecutive_failures, p, 0)
                      = GetOr(monitor.consecutive_failures, p, 0)
          /\ monitor'.last_heal_request = monitor.last_heal_request
          /\ MonitorOthersUntouched(p)]_vars

\* C18 witness: a successful heal of a provider has just completed while
\* another provider has errors on record.
C18_Witness ==
    \E p \in MonitorNames :
        /\ lastCall = [op |-> "handle_heal_complete", provider |-> p, ret |-> TRUE]
        /\ mlog.fires[p] # << >>
        /\ monitor.error_history[p] = << >>
        /\ \E q \in MonitorNames \ {p} : GetOr(monitor.error_history, q, << >>) # << >>

\* C19: HealthMonitor.record_success(p) sets p's consecutive-failure counter
\* to 0 and changes nothing else; the errors recorded before it count toward
\* the threshold as before.
C19_RecordSuccessOnlyResetsCounter ==
    [][\A p \in MonitorNames :
        IsCall("monitor.record_success", p) =>
          /\ monitor'.consecutive_failures[p] = 0
          /\ monitor'.error_history = monitor.error_history
          /\ monitor'.healing_in_progress = monitor.healing_in_progress
          /\ monitor'.last_heal_request = monitor.last_heal_request
          /\ monitor'._heal_callbacks = monitor._heal_callbacks
          /\ MonitorOthersUntouched(p)
          /\ record_error(monitor', p, "test-model", UpstreamFailed, now).ret
                = record_error(monitor, p, "test-model", UpstreamFailed, now).ret]_vars

\* C19 witness: the callbacks have just been fired by an error that is the
\* first since a success, the errors before the success making up the
\* threshold.
C19_Witness ==
    \E p \in MonitorNames :
        /\ lastCall.op = "record_error"
        /\ lastCall.provider = p
        /\ lastCall.ret
        /\ LastError(monitor, p).consecutive_failures = 1
        /\ ERROR_THRESHOLD > 1

\* C16: in the running gateway at most one heal cycle per provider is in
\* progress at any time: no two chat handlers are awaiting _on_heal_request
\* for the same provider.
C16_OneHealCyclePerProvider ==
    \A c, d \in Clients :
        c # d /\ req[c].pc = "healing" /\ req[d].pc = "healing"
            => req[c].provider # req[d].provider

\* C20: apply_fix with auto_apply false and a proposal whose confidence is
\* below auto_apply_threshold stores the proposal in pending_fixes for that
\* provider and returns success = false with the queued-for-review message,
\* and changes nothing else: no backup, version history and current version
\* as before, verify not awaited, the adapter sources untouched.
C20_QueuedChangesNothingElse ==
    [][\A p \in ReloadNames :
        (/\ IsCall("apply_fix", p)
         /\ ~_reload_manager.auto_apply
         /\ lastCall'.fix_proposal.confidence < _reload_manager.auto_apply_threshold)
        => /\ p \in DOMAIN _reload_manager'.pending_fixes
           /\ _reload_manager'.pending_fixes[p] = lastCall'.fix_proposal
           /\ \A q \in ReloadNames \ {p} :
                GetOr(_reload_manager'.pending_fixes, q, None)
                    = GetOr(_reload_manager.pending_fixes, q, None)
           /\ _reload_manager'.versions = _reload_manager.versions
           /\ _reload_manager'.current_version = _reload_manager.current_version
           /\ _reload_manager'.auto_apply = _reload_manager.auto_apply
           /\ disk' = disk
           /\ lastCall'.ret
           /\ fix_calls' = fix_calls
           /\ lastCall'.result.success = FALSE
           /\ lastCall'.result.provider = p
           /\ lastCall'.result.version = GetOr(_reload_manager.current_version, p, 0)
           /\ lastCall'.result.message = "Queued for review"]_vars

\* C20 witness: a proposal has just been queued for a provider that has a
\* version on record and a backup on disk.
C20_Witness ==
    \E p \in ReloadNames :
        /\ lastCall.op = "apply_fix"
        /\ lastCall.provider = p
        /\ lastCall.ret
        /\ lastCall.result.message = "Queued for review"
        /\ p \in DOMAIN _reload_manager.pending_fixes
        /\ GetOr(_reload_manager.versions, p, << >>) # << >>
        /\ disk.backups # << >>

\* C21: reject_fix(p, reason) with a pending fix for p removes it from
\* pending_fixes and leaves p's latest version marked REJECTED with the
\* reason; with no pending fix for p it returns false and changes nothing.
C21_RejectMarksLatestVersion ==
    [][\A p \in FixNames :
        LET vs == GetOr(_reload_manager'.versions, p, << >>)
        IN  IsCall("reject_fix", p) =>
              IF p \in DOMAIN _reload_manager.pending_fixes
              THEN /\ lastCall'.ret
                   /\ p \notin DOMAIN _reload_manager'.pending_fixes
                   /\ vs # << >>
                   /\ vs[Len(vs)].status = "rejected"
                   /\ vs[Len(vs)].verification_result = "Rejected: " \o lastCall'.reason
              ELSE /\ ~lastCall'.ret
                   /\ _reload_manager' = _reload_manager
                   /\ disk' = disk]_vars

\* The history file holds what the manager holds.
Persisted(m, d) ==
    d.history = [versions |-> m.versions, current_version |-> m.current_version]

\* The AdapterVersion object v, where it is in p's history, has this status.
Marked(m, p, v, status) ==
    \A i \in DOMAIN GetOr(m.versions, p, << >>) :
        m.versions[p][i].id = v.id => m.versions[p][i].status = status

\* C22: whenever apply_fix reaches verification and verify returns false (or
\* raises), for every provider, one with no earlier version included, the
\* manager rolls back to the previous version, marks the new version
\* ROLLED_BACK, persists the history, leaves the current version at the
\* previous value and returns a failure with verification_passed = false.
C22_FailedVerifyRollsBack ==
    [][\A p \in FixNames :
        (IsCall("apply_fix_verified", p) /\ ~lastCall'.ret) =>
          LET v == lastCall'.call.version
          IN  /\ lastCall'.result.success = FALSE
              /\ lastCall'.result.verification_passed = "False"
              /\ GetOr(_reload_manager'.current_version, p, 0) = v.version - 1
              /\ Marked(_reload_manager', p, v, "rolled_back")
              /\ Persisted(_reload_manager', disk')]_vars

\* The apply_fix flow of p reached its verified branch in this step: the
\* verify callback returned true, or apply_fix or approve_fix ran through
\* without one.
Committed(p) ==
    \/ IsCall("apply_fix_verified", p) /\ lastCall'.ret
    \/ /\ IsCall("apply_fix", p) \/ IsCall("approve_fix", p)
       /\ lastCall'.ret
       /\ lastCall'.result.message = "Fix applied and verified"

\* C23: when verify returns true, or no verify callback was supplied, the new
\* version is marked VERIFIED, the provider's current version becomes the
\* new version's number, the history is persisted and the result is a
\* success with verification_passed = true.
C23_PassedVerifyCommits ==
    [][\A p \in FixNames :
        Committed(p) =>
          LET n == lastCall'.result.version
              vs == GetOr(_reload_manager'.versions, p, << >>)
          IN  /\ lastCall'.result.success
              /\ lastCall'.result.verification_passed = "True"
              /\ GetOr(_reload_manager'.current_version, p, 0) = n
              /\ IsCall("apply_fix_verified", p) =>
                    /\ n = lastCall'.call.version.version
                    /\ Marked(_reload_manager', p, lastCall'.call.version, "verified")
              /\ ~IsCall("apply_fix_verified", p) =>
                    /\ vs # << >>
                    /\ vs[Len(vs)].version = n
                    /\ vs[Len(vs)].status = "verified"
              /\ Persisted(_reload_manager', disk')]_vars

\* a verify callback returned true for a provider's second fix, and its
\* version is the current one
C23_Witness ==
    /\ lastCall.op = "apply_fix_verified"
    /\ lastCall.ret
    /\ lastCall.result.verification_passed = "True"
    /\ lastCall.result.version = 2
    /\ GetOr(_reload_manager.current_version, lastCall.provider, 0) = 2

\* The step restored a backup: rollback_to_version, or the failed
\* verification of an apply_fix call.
RollbackStep(p) ==
    \/ IsCall("rollback_to_version", p)
    \/ IsCall("apply_fix_verified", p) /\ ~lastCall'.ret

\* C24: over any sequence of apply_fix and approve_fix calls, with any
\* proposals (code_patch and workaround proposals carrying fix_code
\* included), every FixApplication returned has code_changed = false, and the
\* adapter sources change, and a module is reloaded, only in a step that
\* rolls back to a backup.
C24_NeverPatchesSource ==
    [][\A p \in FixNames :
        /\ ((IsCall("apply_fix", p) \/ IsCall("approve_fix", p)) /\ lastCall'.ret)
             => lastCall'.result.code_changed = FALSE
        /\ IsCall("apply_fix_verified", p)
             => /\ lastCall'.result.code_changed = FALSE
                /\ lastCall'.call.code_changed = FALSE
        /\ (lastCall'.provider = p /\ ~RollbackStep(p))
             => /\ disk'.adapters = disk.adapters
                /\ disk'.reloaded = disk.reloaded]_vars

\* an approved workaround carrying fix_code was applied and verified, and no
\* module was reloaded
C24_Witness ==
    /\ lastCall.op = "approve_fix"
    /\ lastCall.ret
    /\ lastCall.result.success
    /\ \E i \in DOMAIN GetOr(_reload_manager.versions, lastCall.provider, << >>) :
          LET v == _reload_manager.versions[lastCall.provider][i]
          IN  /\ v.fix_proposal.fix_type = "workaround"
              /\ v.fix_proposal.fix_code # ""
              /\ v.status = "verified"
    /\ disk.reloaded = {}

\* C25: after any sequence of apply_fix, approve_fix, reject_fix and
\* rollback_to_version calls, the version numbers in each provider's history
\* are strictly increasing, so no two entries share a number.
C25_VersionNumbersIncrease ==
    \A p \in FixNames :
        LET vs == GetOr(_reload_manager.versions, p, << >>)
        IN  \A i, j \in DOMAIN vs : i < j => vs[i].version < vs[j].version

\* C26: in every reachable state each provider's history holds at most
\* MAX_VERSIONS entries, and the evictions that keep it so leave the version
\* a later rollback needs in place: the provider's current version, which is
\* the previous version of its next fix, is in the history with its backup
\* file.
C26_HistoryKeepsPreviousVersion ==
    \A p \in FixNames :
        LET vs == GetOr(_reload_manager.versions, p, << >>)
            current == GetOr(_reload_manager.current_version, p, 0)
        IN  /\ Len(vs) <= MAX_VERSIONS
            /\ current >= 1 =>
                  \E i \in DOMAIN vs : /\ vs[i].version = current
                                       /\ vs[i].backup_path \in DOMAIN disk.backups

\* C27: approve_fix(p) with a pending fix for p removes it from pending_fixes
\* and runs the apply_fix flow for it whatever its confidence (it takes the
\* backup and goes on to verify, commit or roll back, it is never queued
\* again), and when the call returns auto_apply has the value it had before
\* the call; with no pending fix it returns a failure and changes nothing.
C27_ApproveRunsApplyFix ==
    [][\A p \in FixNames :
        /\ IsCall("approve_fix", p) =>
              IF p \in DOMAIN _reload_manager.pending_fixes
              THEN /\ p \notin DOMAIN _reload_manager'.pending_fixes
                   /\ \E i \in DOMAIN GetOr(_reload_manager'.versions, p, << >>) :
                         /\ _reload_manager'.versions[p][i].id = served'
                         /\ _reload_manager'.versions[p][i].fix_proposal
                              = _reload_manager.pending_fixes[p]
                   /\ lastCall'.ret =>
                         /\ lastCall'.result.message # "Queued for review"
                         /\ _reload_manager'.auto_apply = _reload_manager.auto_apply
              ELSE /\ lastCall'.ret
                   /\ lastCall'.result.success = FALSE
                   /\ lastCall'.result.message = "No pending fix"
                   /\ _reload_manager' = _reload_manager
                   /\ disk' = disk
                   /\ fix_calls' = fix_calls
        /\ (IsCall("apply_fix_verified", p) /\ lastCall'.call.via = "approve_fix") =>
              _reload_manager'.auto_apply = lastCall'.call.old]_vars

\* approve_fix applied a pending fix whose confidence is below the threshold,
\* awaited its verify callback, and has returned with auto_apply off again
C27_Witness ==
    /\ lastCall.op = "apply_fix_verified"
    /\ lastCall.call.via = "approve_fix"
    /\ lastCall.call.version.fix_proposal.confidence < AUTO_APPLY_CONFIDENCE
    /\ lastCall.call.old = FALSE
    /\ _reload_manager.auto_apply = FALSE
    /\ lastCall.result.success

\* C28: when several threads look the same provider name up for the first
\* time at once, one adapter instance is constructed for the name and every
\* lookup that returns, returns that instance; the lookup of a name that is
\* not configured fails (404) and leaves the registry as it was.
C28_OneInstancePerName ==
    [][/\ \A n \in LookupNames :
            Cardinality({i \in DOMAIN constructed' : constructed'[i] = n}) <= 1
       /\ \A t \in Threads :
            LET th == threads'[t]
            IN  /\ (th.pc = "done" /\ th.name \in ConfiguredNames) =>
                      /\ th.status = 0
                      /\ th.instance \in DOMAIN constructed'
                      /\ constructed'[th.instance] = th.name
                /\ (th # threads[t] /\ th.name \notin ConfiguredNames) =>
                      /\ th.pc = "done" => th.status = 404 /\ th.instance = 0
                      /\ _providers' = _providers
                      /\ constructed' = constructed]_vars

\* two threads missed the unlocked peek for ollama at once; the first has
\* constructed the adapter and returned it, the second now holds the lock
\* with the adapter in the registry, and a lookup of "nope" has failed
C28_Witness ==
    \E t1, t2, t3 \in Threads :
        /\ threads[t1] = [pc |-> "done", name |-> "ollama", instance |-> 1, status |-> 0]
        /\ threads[t2] = [pc |-> "locked", name |-> "ollama", instance |-> 0, status |-> 0]
        /\ "ollama" \in _providers
        /\ constructed = <<"ollama">>
        /\ threads[t3] = [pc |-> "done", name |-> "nope", instance |-> 0, status |-> 404]

\* What resolve_model is to return for the string s, by the first rule that
\* applies: an alias gives its value cut at the first colon, or the default
\* provider with a value that has no colon; a string with a colon is cut at
\* its first colon; otherwise the provider is that of the first family with
\* a substring in the lower-cased string, or the default provider.
Resolves(s, r) ==
    LET value == model_aliases[s]
        lower == Lower(s)
        hits == {i \in DOMAIN Inferred : AnyIn(lower, Inferred[i].subs)}
    IN  IF s \in DOMAIN model_aliases
        THEN IF Contains(value, ":")
             THEN r[1] \o ":" \o r[2] = value /\ ~Contains(r[1], ":")
             ELSE r = <<default_provider, value>>
        ELSE IF Contains(s, ":")
        THEN r[1] \o ":" \o r[2] = s /\ ~Contains(r[1], ":")
        ELSE IF hits # {}
        THEN /\ r[2] = s
             /\ \E i \in hits : r[1] = Inferred[i].provider /\ \A j \in hits : i <= j
        ELSE r = <<default_provider, s>>

C30_ColonNeedsKnownProvider ==
    \A i \in DOMAIN resolver.results :
        LET s == resolver.results[i].alias
            r == resolver.results[i].ret
        IN  (s \notin DOMAIN model_aliases /\ Contains(s, ":")) =>
              /\ SplitColon(s)[1] \in ConfiguredNames => r = SplitColon(s)
              /\ SplitColon(s)[1] \notin ConfiguredNames => r[2] = s
              /\ s = "llama3.1:8b" => r = <<"ollama", "llama3.1:8b">>

\* C31: a chat_stream that has ended, the upstream having completed or
\* having failed mid-stream, has yielded [DONE] exactly once, as its last
\* frame; when the upstream failed the frame before it is a stop frame with
\* finish_reason = error.
C31_DoneIsLastFrame ==
    stream.pc \in {"done", "raised"} =>
        LET n == Len(stream.frames)
        IN  /\ n >= 1
            /\ stream.frames[n] = DONE
            /\ \A i \in 1 .. n - 1 : stream.frames[i] # DONE
            /\ stream.pc = "raised" => n >= 2 /\ stream.frames[n - 1] = "stop:error"

\* C32: for every adapter and every upstream response, a ChatResponse with
\* a non-empty tool_calls list has finish_reason tool_calls, whatever
\* reason the upstream reported.
C32_ToolCallsFinishReason ==
    \A i \in DOMAIN response.out :
        response.out[i].tool_calls > 0 => response.out[i].finish_reason = "tool_calls"

\* C33: the chat endpoint answers an upstream rate limit with 429, a
\* missing model with 404, every other upstream error with 502 (an upstream
\* 401 and an upstream 5xx included) and a failure inside the gateway with
\* 500.
C33_ChatStatusTable ==
    reply.status # 0 =>
        /\ reply.upstream = 200 => reply.status = 200
        /\ reply.upstream = 429 => reply.status = 429
        /\ reply.upstream = 404 => reply.status = 404
        /\ reply.upstream \in {400, 401, 500, 503} => reply.status = 502
        /\ reply.raised \notin ProviderErrorClasses \cup {"ok"} => reply.status = 500

\* The proposals diagnose returns from its except clause.
HealErrorTypes == {"auth_error", "transient_error", "heal_error"}

\* C34: whatever fails in a heal cycle (a heal callback raising, a model
\* call failing in any phase, model output that cannot be parsed, the backup
\* or the rollback failing), record_error returns normally to the chat
\* handler and the request is answered with the status it gets with
\* self-healing disabled.
C34_HealFailureStaysInside ==
    /\ heal.ret \in {"", "returned"}
    /\ heal.pc \in {"ended", "approving", "closed"} => heal.ret = "returned"
    /\ heal.ret = "returned" => heal.status = chat_error_status(heal.error)

\* A cycle over: a callback raised, then the diagnose model call failed, and
\* the chat request was answered 502.
C34_Witness ==
    /\ heal.pc = "ended"
    /\ Len(monitor._heal_callbacks) = 2
    /\ heal.proposal.fix_type \in HealErrorTypes
    /\ heal.ret = "returned"
    /\ heal.status = 502

\* The model calls of the cycle made in phase ph.
CallsOf(ph) == SelectSeq(heal.calls, LAMBDA c : c.phase = ph)

\* The place of a phase in the order diagnose, research, fix.
PhaseRank(ph) == IF ph = "diagnose" THEN 1 ELSE IF ph = "research" THEN 2 ELSE 3

\* C35: a heal cycle runs its phases in the order diagnose, research, fix,
\* each at most once: no model call of a phase follows one of a later
\* phase, and the diagnose and the fix phase make one call at most. When
\* the diagnosis reports is_transient = true the cycle returns a
\* no_fix_needed proposal of confidence 0.8 and makes no research and no fix
\* call.
C35_PhasesInOrder ==
    /\ \A i, j \in DOMAIN heal.calls :
          i < j => PhaseRank(heal.calls[i].phase) <= PhaseRank(heal.calls[j].phase)
    /\ Len(CallsOf("diagnose")) <= 1
    /\ Len(CallsOf("fix")) <= 1
    /\ CallsOf("research") # << >> => CallsOf("research")[1].alias = heal.research_model
    /\ heal.diagnosis = "transient" =>
          /\ heal.proposal = [fix_type |-> "no_fix_needed", confidence |-> 80,
                              fix_code |-> ""]
          /\ CallsOf("research") = << >>
          /\ CallsOf("fix") = << >>

\* A cycle over whose diagnosis was transient: one model call was made.
C35_Witness ==
    /\ heal.pc \in {"ended", "closed"}
    /\ heal.diagnosis = "transient"
    /\ Len(heal.calls) = 1
    /\ heal.proposal.confidence = 80

\* The cloud providers the fallback loop of the research phase is to try: the
\* configured ones other than the provider of the research model, in list
\* order.
FallbackProviders ==
    SelectSeq(heal.cloud_providers,
              LAMBDA c : c # resolve_model(heal.research_model)[1])

\* C36: when the call of the research model fails, the research phase calls
\* the configured cloud providers other than the research model's, in list
\* order and until one returns findings, the research model's provider not a
\* second time; when all fail the research result is the no-documentation
\* string and the fix call is made.
C36_ResearchFallsBackInOrder ==
    LET rs == CallsOf("research")
    IN  /\ Len(rs) - 1 <= Len(FallbackProviders)
        /\ \A k \in 2 .. Len(rs) : rs[k].provider = FallbackProviders[k - 1]
        /\ heal.research = NoDocs =>
              /\ Len(rs) - 1 = Len(FallbackProviders)
              /\ Len(CallsOf("fix")) = 1

\* C37: in a heal cycle for provider p, no model call of the research
\* fallback loop goes to p.
C37_FallbackNeverCallsTarget ==
    LET rs == CallsOf("research")
    IN  \A k \in 2 .. Len(rs) : rs[k].provider # heal.provider

\* C39: every heal cycle started for provider p ends with p taken out of
\* healing_in_progress, whatever its outcome: when the cycle is over and
\* left no fix queued (verified, failed, rolled back), and when the fix it
\* queued has been approved or rejected through the fixes endpoints.
C39_HealingMarkIsRemoved ==
    /\ heal.pc = "ended" /\ heal.provider \notin DOMAIN _reload_manager.pending_fixes
          => heal.provider \notin monitor.healing_in_progress
    /\ heal.pc = "closed" => heal.provider \notin monitor.healing_in_progress

\* The operations of the reload manager that change what it keeps.
Mutating == {"apply_fix", "approve_fix", "reject_fix", "rollback_to_version"}

\* C38: two mutating operations of the reload manager for one provider do
\* not interleave: while a call of apply_fix or approve_fix for provider p
\* awaits its verify callback, no other apply_fix, approve_fix, reject_fix or
\* rollback_to_version for p changes the manager or the files.
C38_OneOperationPerProvider ==
    [][\A f \in fix_calls :
          lastCall'.op \in Mutating /\ lastCall'.provider = f.provider
              => _reload_manager' = _reload_manager /\ disk' = disk]_vars

\* C40: with auto_apply configured false, a proposal whose confidence is
\* below the threshold is not backed up, verified or committed by a call of
\* apply_fix that approve_fix did not make for the pending fix of that
\* provider, whatever calls of apply_fix and approve_fix for other providers
\* are in flight: a call of apply_fix for a provider that has no version yet
\* and no call in flight queues the proposal and leaves the versions and
\* the files alone; and when no approve_fix call is in flight any more
\* auto_apply is back at its configured value.
C40_LowConfidenceNeedsApproval ==
    [][/\ (/\ lastCall'.op = "apply_fix"
           /\ GetOr(_reload_manager.versions, lastCall'.provider, << >>) = << >>
           /\ \A f \in fix_calls : f.provider # lastCall'.provider) =>
            /\ lastCall'.provider \in DOMAIN _reload_manager'.pending_fixes
            /\ _reload_manager'.versions = _reload_manager.versions
            /\ disk' = disk
            /\ fix_calls' = fix_calls
       /\ (\A f \in fix_calls' : f.via # "approve_fix") =>
            _reload_manager'.auto_apply = auto_apply_fixes]_vars

====
